---- MODULE Spec2Model ----
(***************************************************************************)
(* A model of facebook-marketplace-rss: the SQLite store of ad listings    *)
(* (src/src/db.rs), the keyword filter (src/src/filter.rs), and the        *)
(* config-update endpoint (src/src/web.rs, src/src/config.rs), the cycle   *)
(* of check_for_ads with its workers and the background loop               *)
(* (src/src/main.rs), and the feed (src/src/rss_gen.rs).                   *)
(*                                                                         *)
(* The specifications of the module, among them:                           *)
(*   SpecStore   one caller at a time: each sighting (stamp, upsert) is    *)
(*               one step, with prune, query and the clock in between;     *)
(*   SpecRace    the workers of a cycle run in parallel: the two clock     *)
(*               reads, the SELECT and the INSERT/UPDATE of a sighting are *)
(*               separate steps that interleave;                           *)
(*   SpecFilter  apply_filters on every input of a bounded set;            *)
(*   SpecWeb     concurrent config-update requests and the cycle's read    *)
(*               of the shared configuration;                              *)
(*   SpecCycle   one cycle after another, each with up to three workers;   *)
(*   SpecReload  the same with configuration updates in between;           *)
(*   SpecLoop    the background loop under fair scheduling;                *)
(*   SpecFeed    the feed served beside a worker's upserts and the prune.  *)
(***************************************************************************)
EXTENDS Integers, Sequences, FiniteSets, TLC

VARIABLES
    \* ---- the store and its callers (db.rs, main.rs) ----
    now,        \* the wall clock, Utc::now(), an instant (see Nanos)
    ticks,      \* how many times the clock has advanced
    ncalls,     \* how many upsert calls have been started
    table,      \* the rows of ad_changes, in rowid order
    wpc,        \* per worker: where it is in a sighting
    entry,      \* per worker: the AdEntry it is building / has passed
    exists,     \* per worker: the local `exists` of insert_or_update_ad
    res,        \* per worker: the result of its last insert_or_update_ad
    pruned,     \* the result of the last prune_old_ads
    recent,     \* the result of the last get_recent_ads
    \* ---- the filter (filter.rs) ----
    fpc,        \* "input" before apply_filters has run, "done" after
    url_filters,\* the configuration's url_filters map
    furl,       \* the URL argument
    ftitle,     \* the title argument
    fresult,    \* what apply_filters returned
    \* ---- the config endpoint (web.rs, config.rs, main.rs) ----
    config,     \* AppState.config, the shared in-memory configuration
    disk,       \* the content of the configuration file
    loaded,     \* the configuration main() loaded at start-up
    rpc,        \* per request: where update_config is
    rcfg,       \* per request: the posted configuration
    rstatus,    \* per request: the HTTP status answered
    nposts,     \* how many config-update requests have arrived
    cycleCfg,   \* the configuration cloned by the running cycle
    \* ---- the partitioning of a cycle's URLs (main.rs:24-33) ----
    ppc,        \* "input" before the URLs are partitioned, "done" after
    purls,      \* the URLs, in the order the map's keys() yields them
    pchunks,    \* the partitions built from them
    \* ---- a cycle and its workers (main.rs:22-137) ----
    cpc,        \* the background loop: "sleep" between cycles (and before the
                \* first), "start" calling check_for_ads, "join" awaiting tasks
    chunks,     \* the partitions of the running cycle, one per worker
    prunes,     \* how many times the cycle has called prune_old_ads
    kpc,        \* per worker: "none", "init", "fetch" or "done"
    kidx,       \* per worker: which URL of its partition it is at
    kfails,     \* per worker: 1 once an attempt of its current retry loop failed
    init_success, \* per worker: the local init_success
    driver,     \* per worker: whether its Scraper holds a WebDriver session
    tried,      \* per worker: the URLs it has called get_page_content for
    lastFetch,  \* the latest get_page_content attempt: what the browser did,
                \* whether content was Some, where the store failed, how
                \* many upsert calls followed
    \* ---- one retry loop and its ExponentialBackoff (main.rs:43-64) ----
    bpc,        \* "url" at the top of `for url in chunk`, then "check",
                \* "attempt", "ok" or "exhausted"
    elapsed,    \* milliseconds since the backoff's start_time
    current_interval, \* the backoff's current_interval, in milliseconds
    delay,      \* the delay the last next_backoff returned
    bop,        \* which retry loop of the task this is: 0 init, k the k-th URL
    backoff,    \* the task's `backoff` (main.rs:43), which every fetch clones:
                \* the time since its start_time and its current_interval
    \* ---- the background loop of main (main.rs:188-202) ----
    interval,   \* the local `interval`, in minutes (0 before the first read)
    guards,     \* the tasks holding a read guard of AppState.config
    \* ---- the workers' WebDriver sessions (scraper.rs:25-45) ----
    quits,      \* per worker: how many times it has called driver.quit()
    session,    \* per worker: whether the session it opened is open at the server
    \* ---- the feed (web.rs:52-76, rss_gen.rs) ----
    feed        \* the response to the last GET /rss

dbVars == <<now, ticks, ncalls, table, wpc, entry, exists, res, pruned, recent>>
filterVars == <<fpc, url_filters, furl, ftitle, fresult>>
webVars == <<config, disk, loaded, rpc, rcfg, rstatus, nposts, cycleCfg>>
partVars == <<ppc, purls, pchunks>>
cycleVars == <<cpc, chunks, prunes, kpc, kidx, kfails, init_success, driver, tried,
               lastFetch>>
backoffVars == <<bpc, elapsed, current_interval, delay>>
opVars == <<bop, backoff>>
loopVars == <<interval, guards>>
sessVars == <<quits, session>>
feedVars == <<feed>>
moreVars == <<opVars, loopVars, sessVars, feedVars>>
pipeVars == <<partVars, cycleVars, backoffVars, moreVars>>
vars == <<dbVars, filterVars, webVars, pipeVars>>

(***************************************************************************)
(* Bounds of the model.                                                    *)
(***************************************************************************)
MaxTicks == 2
MaxCalls == 2
MaxTitleLen == 2
MaxPosts == 2
MaxUrls == 5
MaxAttemptSecs == 20

(***************************************************************************)
(* Program constants.                                                      *)
(***************************************************************************)
RetentionDays == 14
RecentDays == 7

None == "none"

(***************************************************************************)
(* Time.  An instant is a natural number t: day t \div Len(Nanos) (the     *)
(* whole-second part of the timestamp) and sub-second part                 *)
(* Nanos[t % Len(Nanos) + 1] nanoseconds.  The four sub-second values make *)
(* chrono print no fraction, three, six and nine fractional digits.        *)
(***************************************************************************)
Nanos == <<0, 500000000, 500001000, 500001001>>

DayOf(t) == t \div Len(Nanos)
NanosOf(t) == Nanos[(t % Len(Nanos)) + 1]

\* Duration::days(n), in instants.
Days(n) == n * Len(Nanos)

\* Character codes of the timestamp texts.
PlusCh == 43
DotCh == 46
ZeroCh == 48

RECURSIVE Pow10(_)
Pow10(n) == IF n = 0 THEN 1 ELSE 10 * Pow10(n - 1)

\* n in decimal, zero-padded to `width` digits, as character codes.
RECURSIVE Digits(_, _)
Digits(n, width) ==
    IF width = 0 THEN <<>>
    ELSE Append(Digits(n \div 10, width - 1), ZeroCh + (n % 10))

\* The number a sequence of digit codes denotes.
RECURSIVE Number(_)
Number(ds) ==
    IF ds = <<>> THEN 0
    ELSE 10 * Number(SubSeq(ds, 1, Len(ds) - 1)) + (ds[Len(ds)] - ZeroCh)

\* SecondsFormat::AutoSi: no fraction, or as many of 3, 6, 9 digits as needed.
FracText(ns) ==
    IF ns = 0 THEN <<>>
    ELSE IF ns % 1000000 = 0 THEN <<DotCh>> \o Digits(ns \div 1000000, 3)
    ELSE IF ns % 1000 = 0 THEN <<DotCh>> \o Digits(ns \div 1000, 6)
    ELSE <<DotCh>> \o Digits(ns, 9)

\* DateTime<Utc>::to_rfc3339(): "YYYY-MM-DDTHH:MM:SS[.fff]+00:00".  The fixed-width
\* date and time fields are the three digits of the day; the text ends at the
\* '+' of the constant offset "+00:00".
to_rfc3339(t) == Digits(DayOf(t), 3) \o FracText(NanosOf(t)) \o <<PlusCh>>

\* SQLite's comparison of two TEXT values (BINARY collation: memcmp, then length).
RECURSIVE TextLess(_, _)
TextLess(a, b) ==
    IF b = <<>> THEN FALSE
    ELSE IF a = <<>> THEN TRUE
    ELSE IF a[1] # b[1] THEN a[1] < b[1]
    ELSE TextLess(Tail(a), Tail(b))

IsDigit(c) == c >= ZeroCh /\ c <= ZeroCh + 9

WellFormedText(s) ==
    /\ Len(s) >= 4
    /\ \A i \in 1..3 : IsDigit(s[i])
    /\ s[Len(s)] = PlusCh
    /\ \/ Len(s) = 4
       \/ /\ s[4] = DotCh
          /\ Len(s) > 5
          /\ \A i \in 5..(Len(s) - 1) : IsDigit(s[i])

\* DateTime::parse_from_rfc3339(s).with_timezone(&Utc), or `fallback`
\* (unwrap_or_else(|_| Utc::now())) when the text does not parse.
parse_from_rfc3339(s, fallback) ==
    IF ~WellFormedText(s) THEN fallback
    ELSE LET day == Number(SubSeq(s, 1, 3))
             frac == IF Len(s) = 4 THEN <<>> ELSE SubSeq(s, 5, Len(s) - 1)
             ns == Number(frac) * Pow10(9 - Len(frac))
         IN IF \E i \in 1..Len(Nanos) : Nanos[i] = ns
            THEN day * Len(Nanos) + (CHOOSE i \in 1..Len(Nanos) : Nanos[i] = ns) - 1
            ELSE fallback

(***************************************************************************)
(* The store: table ad_changes (db.rs) and the sightings of main.rs.       *)
(***************************************************************************)
Workers == {"w1", "w2"}

\* Listing URLs a page can show, https://facebook.com/marketplace/item/<n>.
ItemUrls == {"item/1", "item/2"}
\* The (title, price) a listing may show at a sighting.
Shown == {<<"T1", "$1">>, <<"T2", "$2">>}

\* get_ad_hash: the md5 of the listing URL, taken to be free of collisions.
get_ad_hash(u) == <<"md5", u>>

\* What extract_ads yields for one listing: (id, title, price, ad_url).
Candidates ==
    { [ad_id |-> get_ad_hash(u), title |-> tp[1], price |-> tp[2], url |-> u] :
        u \in ItemUrls, tp \in Shown }

\* The AdEntry built at main.rs:102-109 from a candidate and two clock reads.
AdEntry(c, first, last) ==
    [ad_id |-> c.ad_id, title |-> c.title, price |-> c.price, url |-> c.url,
     first_seen |-> first, last_checked |-> last]

\* SELECT ad_id FROM ad_changes WHERE ad_id = ?  (stmt.exists)
Exists(t, id) == \E i \in 1..Len(t) : t[i].ad_id = id

\* The row the INSERT statement writes for an entry.
InsertedRow(e) ==
    [url |-> e.url, ad_id |-> e.ad_id, title |-> e.title, price |-> e.price,
     first_seen |-> to_rfc3339(e.first_seen),
     last_checked |-> to_rfc3339(e.last_checked)]

\* ad_id TEXT PRIMARY KEY: an INSERT of a key that is stored fails with a
\* constraint error and writes nothing.
PrimaryKeyFree(t, id) == \A i \in 1..Len(t) : t[i].ad_id # id

\* Insert on a table created without the PRIMARY KEY: every INSERT succeeds.
InsertNoKey(t, e) == [ok |-> TRUE, table |-> Append(t, InsertedRow(e))]

\* INSERT INTO ad_changes ...: the new table, and whether the statement succeeded.
Insert(t, e) ==
    IF PrimaryKeyFree(t, e.ad_id)
    THEN [ok |-> TRUE, table |-> Append(t, InsertedRow(e))]
    ELSE [ok |-> FALSE, table |-> t]

\* UpdatedRow with first_seen in the SET list as well.
UpdatedRowAll(row, e) ==
    [row EXCEPT !.last_checked = to_rfc3339(e.last_checked),
                !.first_seen = to_rfc3339(e.first_seen),
                !.title = e.title,
                !.price = e.price]

\* What the UPDATE statement makes of one matching row.
UpdatedRow(row, e) ==
    [row EXCEPT !.last_checked = to_rfc3339(e.last_checked),
                !.title = e.title,
                !.price = e.price]

\* UPDATE ad_changes SET last_checked = ?, title = ?, price = ? WHERE ad_id = ?
Update(t, e) ==
    [i \in 1..Len(t) |-> IF t[i].ad_id = e.ad_id THEN UpdatedRow(t[i], e) ELSE t[i]]

\* UpsertWrite answering Ok(true) after the UPDATE too.
UpsertWriteAlwaysNew(t, e, ex) ==
    IF ~ex
    THEN LET ins == Insert(t, e)
         IN [table |-> ins.table, res |-> IF ins.ok THEN "new" ELSE "err"]
    ELSE [table |-> Update(t, e), res |-> "new"]

\* insert_or_update_ad after the SELECT: the branch on `exists`, the statement,
\* and the Result returned ("new" = Ok(true), "old" = Ok(false), "err" = Err).
UpsertWrite(t, e, ex) ==
    IF ~ex
    THEN LET ins == Insert(t, e)
         IN [table |-> ins.table, res |-> IF ins.ok THEN "new" ELSE "err"]
    ELSE [table |-> Update(t, e), res |-> "old"]

\* Database::insert_or_update_ad run without interruption.
insert_or_update_ad(t, e) == UpsertWrite(t, e, Exists(t, e.ad_id))

\* PruneMatches with <= for <.
PruneMatchesOrEqual(row, cutoff_iso) == ~TextLess(cutoff_iso, row.last_checked)

\* The WHERE clause of prune_old_ads: last_checked < ?
PruneMatches(row, cutoff_iso) == TextLess(row.last_checked, cutoff_iso)

\* Database::prune_old_ads(days_to_keep) at clock `clock`: the rows kept, and
\* the number of rows deleted.
prune_old_ads(t, days_to_keep, clock) ==
    LET cutoff_iso == to_rfc3339(clock - Days(days_to_keep))
        kept == SelectSeq(t, LAMBDA row : ~PruneMatches(row, cutoff_iso))
    IN [table |-> kept, deleted |-> Len(t) - Len(kept)]

\* The WHERE clause of get_recent_ads: last_checked >= ?
RecentMatches(row, cutoff_iso) == ~TextLess(row.last_checked, cutoff_iso)

\* OrderedDesc for ORDER BY last_checked ASC.
OrderedAsc(a, b) == ~TextLess(b.last_checked, a.last_checked)

\* ORDER BY last_checked DESC between two rows, a before b.
OrderedDesc(a, b) == ~TextLess(a.last_checked, b.last_checked)

\* The AdEntry query_map builds from a row.
RowEntry(row, clock) ==
    [ad_id |-> row.ad_id, title |-> row.title, price |-> row.price, url |-> row.url,
     first_seen |-> parse_from_rfc3339(row.first_seen, clock),
     last_checked |-> parse_from_rfc3339(row.last_checked, clock)]

\* Database::get_recent_ads(days) at clock `clock`: every result the statement
\* may give (SQL leaves the order of rows with equal last_checked open).
get_recent_ads(t, days, clock) ==
    LET cutoff_iso == to_rfc3339(clock - Days(days))
        sel == { i \in 1..Len(t) : RecentMatches(t[i], cutoff_iso) }
        n == Cardinality(sel)
        orders == { o \in [1..n -> sel] :
                      /\ \A i, j \in 1..n : i # j => o[i] # o[j]
                      /\ \A i, j \in 1..n : i < j => OrderedDesc(t[o[i]], t[o[j]]) }
    IN { [k \in 1..n |-> RowEntry(t[o[k]], clock)] : o \in orders }

(***************************************************************************)
(* The filter (filter.rs).  Strings are sequences of one-character strings. *)
(***************************************************************************)
DigitChars == {"0", "1", "2", "3", "4", "5", "6", "7", "8", "9"}

\* char::to_lowercase on the letters of the model.
LowerChar(c) ==
    CASE c = "A" -> "a"
      [] c = "B" -> "b"
      [] c = "L" -> "l"
      [] OTHER -> c

\* str::to_lowercase
to_lowercase(str) == [i \in 1..Len(str) |-> LowerChar(str[i])]

\* str::contains: `needle` occurs in `hay` as a contiguous run.
contains(hay, needle) ==
    \E i \in 0..(Len(hay) - Len(needle)) :
        SubSeq(hay, i + 1, i + Len(needle)) = needle

\* str::starts_with
starts_with(str, prefix) ==
    Len(str) >= Len(prefix) /\ SubSeq(str, 1, Len(prefix)) = prefix

LevelPrefix == <<"l", "e", "v", "e", "l">>

\* k[5..]
Suffix(k) == SubSeq(k, Len(LevelPrefix) + 1, Len(k))

\* filter.rs:20: the keys apply_filters keeps as levels.
IsLevelKey(k) ==
    starts_with(k, LevelPrefix) /\ \A i \in 1..Len(Suffix(k)) : Suffix(k)[i] \in DigitChars

DigitValue(c) ==
    CASE c = "0" -> 0 [] c = "1" -> 1 [] c = "2" -> 2 [] c = "3" -> 3 [] c = "4" -> 4
      [] c = "5" -> 5 [] c = "6" -> 6 [] c = "7" -> 7 [] c = "8" -> 8 [] c = "9" -> 9

RECURSIVE ParseDigits(_)
ParseDigits(ds) ==
    IF ds = <<>> THEN 0
    ELSE 10 * ParseDigits(SubSeq(ds, 1, Len(ds) - 1)) + DigitValue(ds[Len(ds)])

\* filter.rs:23: k[5..].parse::<u32>().unwrap_or(0); the empty string does not parse.
LevelSortKey(k) == IF Suffix(k) = <<>> THEN 0 ELSE ParseDigits(Suffix(k))

\* filter.rs:18-23: the orders `levels` may have after sort_by_key: ascending
\* by key, keys that tie in any order (HashMap::keys gives no order).
SortedLevels(filters) ==
    LET keys == { k \in DOMAIN filters : IsLevelKey(k) }
        n == Cardinality(keys)
    IN { o \in [1..n -> keys] :
           /\ \A i, j \in 1..n : i # j => o[i] # o[j]
           /\ \A i, j \in 1..n : i < j => LevelSortKey(o[i]) <= LevelSortKey(o[j]) }

\* LevelMatched requiring every keyword of the level to occur.
LevelMatchedAll(keywords, title_lower) ==
    \A n \in 1..Len(keywords) : contains(title_lower, to_lowercase(keywords[n]))

\* filter.rs:42-44: keywords.iter().any(|kw| title_lower.contains(&kw.to_lowercase()))
LevelMatched(keywords, title_lower) ==
    \E n \in 1..Len(keywords) : contains(title_lower, to_lowercase(keywords[n]))

\* filter.rs:31-51: the loop over `levels` from position i on, and the final true.
RECURSIVE LevelLoop(_, _, _, _)
LevelLoop(filters, levels, i, title_lower) ==
    IF i > Len(levels) THEN TRUE
    ELSE LET keywords == filters[levels[i]]
         IN IF keywords = <<>> THEN LevelLoop(filters, levels, i + 1, title_lower)
            ELSE IF ~LevelMatched(keywords, title_lower) THEN FALSE
            ELSE LevelLoop(filters, levels, i + 1, title_lower)

\* apply_filters(url_filters, url, title): every value it may return (one for
\* each order the levels may be visited in).
apply_filters(uf, url, title) ==
    IF url \notin DOMAIN uf THEN {TRUE}
    ELSE LET filters == uf[url]
         IN IF DOMAIN filters = {} THEN {TRUE}
            ELSE IF SortedLevels(filters) = {<<>>} THEN {TRUE}
            ELSE { LevelLoop(filters, levels, 1, to_lowercase(title)) :
                     levels \in SortedLevels(filters) }

(***************************************************************************)
(* Inputs of the filter.                                                   *)
(***************************************************************************)
\* Level names: "level1", "level2", "level", "levelA", "invalid-level".
Level1 == LevelPrefix \o <<"1">>
Level2 == LevelPrefix \o <<"2">>
LevelBare == LevelPrefix
LevelA == LevelPrefix \o <<"A">>
InvalidLevel == <<"i", "n", "v", "a", "l", "i", "d", "-">> \o LevelPrefix
LevelNames == {Level1, Level2, LevelBare, LevelA, InvalidLevel}

\* Keyword lists: none, ["A"], ["b", "ab"].
KeywordLists == {<<>>, << <<"A">> >>, << <<"b">>, <<"a", "b">> >>}

\* The filters of one URL: any levels among LevelNames, each with a keyword list.
LevelMaps == UNION { [names -> KeywordLists] : names \in SUBSET LevelNames }

\* The URL with a filter entry, and the URLs apply_filters is asked about.
FilterUrl == "https://x"
ProbeUrls == {"https://x", "https://y"}

UrlFilterMaps == UNION { [urls -> LevelMaps] : urls \in SUBSET {FilterUrl} }

TitleChars == {"a", "A", "b"}
FilterTitles == UNION { [1..n -> TitleChars] : n \in 0..MaxTitleLen }

InitFilter ==
    /\ fpc = "input"
    /\ url_filters \in UrlFilterMaps
    /\ furl \in ProbeUrls
    /\ ftitle \in FilterTitles
    /\ fresult = TRUE

\* main.rs:101: apply_filters(&config_clone.url_filters, &url, &title)
Evaluate ==
    /\ fpc = "input"
    /\ fresult' \in apply_filters(url_filters, furl, ftitle)
    /\ fpc' = "done"
    /\ UNCHANGED <<url_filters, furl, ftitle>>
    /\ UNCHANGED <<dbVars, webVars, pipeVars>>

(***************************************************************************)
(* The configuration and its update endpoint (config.rs, web.rs, main.rs). *)
(***************************************************************************)
\* url::Url::parse on the URLs of the model: whether it parses, and the scheme
\* and host of the parsed URL ("" for no host).
Url_parse(u) ==
    CASE u = "https://x" -> [ok |-> TRUE, scheme |-> "https", host |-> "x"]
      [] u = "https://y" -> [ok |-> TRUE, scheme |-> "https", host |-> "y"]
      [] u = "https://z" -> [ok |-> TRUE, scheme |-> "https", host |-> "z"]
      [] u = "https://w" -> [ok |-> TRUE, scheme |-> "https", host |-> "w"]
      [] u = "mailto:a" -> [ok |-> TRUE, scheme |-> "mailto", host |-> ""]
      [] u = "not-a-url" -> [ok |-> FALSE, scheme |-> "", host |-> ""]

\* config.rs:47-49: the level names validate accepts.
ValidLevelName(level_name) ==
    ~ \/ ~starts_with(level_name, LevelPrefix)
      \/ ~(\A i \in 1..Len(Suffix(level_name)) : Suffix(level_name)[i] \in DigitChars)
      \/ Len(level_name) <= Len(LevelPrefix)

\* config.rs:40-44: the URLs validate accepts.
ValidUrl(url_str) ==
    LET parsed_url == Url_parse(url_str)
    IN parsed_url.ok /\ ~(parsed_url.scheme = "" \/ parsed_url.host = "")

\* validate without the check of the port.
validateNoPort(c) ==
    /\ c.refresh_interval_minutes # 0
    /\ \A url_str \in DOMAIN c.url_filters :
          /\ ValidUrl(url_str)
          /\ \A level_name \in DOMAIN c.url_filters[url_str] : ValidLevelName(level_name)

\* Config::validate: TRUE for Ok(()), FALSE for Err.
validate(c) ==
    /\ c.server_port # 0
    /\ c.refresh_interval_minutes # 0
    /\ \A url_str \in DOMAIN c.url_filters :
          /\ ValidUrl(url_str)
          /\ \A level_name \in DOMAIN c.url_filters[url_str] : ValidLevelName(level_name)

\* The Config struct; the fields no code of the model reads are left out.
Config(port, minutes, filters) ==
    [server_port |-> port, refresh_interval_minutes |-> minutes, url_filters |-> filters,
     currency |-> <<"$">>]

\* One level with one keyword, under the given URL and level name.
OneLevel(url, name) == (url :> (name :> << <<"A">> >>))

\* main.rs:148-156: the fallback configuration.
FallbackConfig == Config(5000, 15, <<>>)
\* A configuration with one filtered URL.
FilteredConfig == Config(5000, 15, OneLevel("https://x", Level1))

\* Configurations a request may post: the two above, and FilteredConfig with one
\* thing wrong.
PostedConfigs ==
    { FallbackConfig,
      FilteredConfig,
      Config(0, 15, OneLevel("https://x", Level1)),
      Config(5000, 0, OneLevel("https://x", Level1)),
      Config(5000, 15, OneLevel("not-a-url", Level1)),
      Config(5000, 15, OneLevel("mailto:a", Level1)),
      Config(5000, 15, OneLevel("https://x", LevelA)),
      Config(5000, 15, OneLevel("https://x", LevelBare)),
      Config(5000, 15, OneLevel("https://x", InvalidLevel)) }

\* Configurations the file may hold at start-up: main loads it without validating.
StartConfigs == { FallbackConfig, Config(0, 15, <<>>) }

\* Config::save's file content for c: serde_json writes every field, and
\* Config::load reads the same value back.
Serialized(c) == [json |-> c]

\* A file left cut short by a failed write.
TruncatedFile == [json |-> [truncated |-> TRUE]]

\* No cycle has cloned the configuration yet.
NoConfig == [absent |-> TRUE]

Requests == {"r1", "r2"}

InitWeb ==
    /\ loaded \in StartConfigs
    /\ config = loaded
    /\ disk = Serialized(loaded)
    /\ rpc = [r \in Requests |-> "idle"]
    /\ rcfg = [r \in Requests |-> NoConfig]
    /\ rstatus = [r \in Requests |-> 0]
    /\ nposts = 0
    /\ cycleCfg = NoConfig

\* The endpoint at rest, for the specifications about the store and the filter.
InitWebIdle ==
    /\ loaded = FallbackConfig
    /\ config = loaded
    /\ disk = Serialized(loaded)
    /\ rpc = [r \in Requests |-> "idle"]
    /\ rcfg = [r \in Requests |-> NoConfig]
    /\ rstatus = [r \in Requests |-> 0]
    /\ nposts = 0
    /\ cycleCfg = NoConfig

\* web.rs:83-86: a POST /api/config arrives with its Json<Config> body.
Post(r) ==
    /\ rpc[r] = "idle"
    /\ nposts < MaxPosts
    /\ \E c \in PostedConfigs : rcfg' = [rcfg EXCEPT ![r] = c]
    /\ rpc' = [rpc EXCEPT ![r] = "posted"]
    /\ rstatus' = [rstatus EXCEPT ![r] = 0]
    /\ nposts' = nposts + 1
    /\ UNCHANGED <<config, disk, loaded, cycleCfg>>
    /\ UNCHANGED <<dbVars, filterVars, pipeVars>>

\* web.rs:87-94: validate fails: 400 Bad Request.
Reject(r) ==
    /\ rpc[r] = "posted"
    /\ ~validate(rcfg[r])
    /\ rstatus' = [rstatus EXCEPT ![r] = 400]
    /\ rpc' = [rpc EXCEPT ![r] = "idle"]
    /\ UNCHANGED <<config, disk, loaded, rcfg, nposts, cycleCfg>>
    /\ UNCHANGED <<dbVars, filterVars, pipeVars>>

\* web.rs:87-97: validate passes and save writes the file; the handler then
\* waits for the write lock.
Save(r) ==
    /\ rpc[r] = "posted"
    /\ validate(rcfg[r])
    /\ disk' = Serialized(rcfg[r])
    /\ rpc' = [rpc EXCEPT ![r] = "saved"]
    /\ UNCHANGED <<config, loaded, rcfg, rstatus, nposts, cycleCfg>>
    /\ UNCHANGED <<dbVars, filterVars, pipeVars>>

\* web.rs:97-104: validate passes and save fails (the file is left as it was,
\* or cut short): 500 Internal Server Error.
SaveFail(r) ==
    /\ rpc[r] = "posted"
    /\ validate(rcfg[r])
    /\ disk' \in {disk, TruncatedFile}
    /\ rstatus' = [rstatus EXCEPT ![r] = 500]
    /\ rpc' = [rpc EXCEPT ![r] = "idle"]
    /\ UNCHANGED <<config, loaded, rcfg, nposts, cycleCfg>>
    /\ UNCHANGED <<dbVars, filterVars, pipeVars>>

\* web.rs:106-114: under the write lock, *config = new_config; 200 OK.
Apply(r) ==
    /\ rpc[r] = "saved"
    /\ config' = rcfg[r]
    /\ rstatus' = [rstatus EXCEPT ![r] = 200]
    /\ rpc' = [rpc EXCEPT ![r] = "idle"]
    /\ UNCHANGED <<disk, loaded, rcfg, nposts, cycleCfg>>
    /\ UNCHANGED <<dbVars, filterVars, pipeVars>>

\* main.rs:23: a cycle starts: let config = state.config.read().await.clone()
CycleStart ==
    /\ cycleCfg' = config
    /\ UNCHANGED <<config, disk, loaded, rpc, rcfg, rstatus, nposts>>
    /\ UNCHANGED <<dbVars, filterVars, pipeVars>>

(***************************************************************************)
(* The partitioning of a cycle's URLs among workers (main.rs:24-33).       *)
(***************************************************************************)
\* main.rs:29: at most this many scrapers run in a cycle.
MaxScrapers == 3

Min(a, b) == IF a <= b THEN a ELSE b

\* round_robin with every URL pushed to the first chunk.
round_robin_first(urls, num_scrapers) ==
    [j \in 1..num_scrapers |-> IF j = 1 THEN urls ELSE <<>>]

\* main.rs:30-33: chunks[i % num_scrapers].push(url) for the i-th URL (from 0):
\* chunk j (from 1) holds the URLs at positions j, j + num_scrapers, ...
round_robin(urls, num_scrapers) ==
    [j \in 1..num_scrapers |->
        [k \in 1..((Len(urls) - j) \div num_scrapers + 1) |->
            urls[(k - 1) * num_scrapers + j]]]

\* main.rs:25-33: the chunks of a cycle; none when there is no URL.
partition(urls) ==
    IF urls = <<>> THEN <<>>
    ELSE round_robin(urls, Min(MaxScrapers, Len(urls)))

\* The orders in which HashMap::keys() may yield the keys S: all of them.
KeyOrders(S) ==
    { o \in [1..Cardinality(S) -> S] : \A i, j \in 1..Cardinality(S) : o[i] = o[j] => i = j }

\* The search URLs a configuration may name.
UrlPool ==
    <<"https://x", "https://y", "https://z", "https://w", "https://v", "https://u",
      "https://t">>
PartUrls == { UrlPool[i] : i \in 1..MaxUrls }

InitPartition ==
    /\ ppc = "input"
    /\ \E S \in SUBSET PartUrls : purls \in KeyOrders(S)
    /\ pchunks = <<>>

\* The partitioning at rest, for the other specifications.
InitPartitionIdle ==
    /\ ppc = "idle"
    /\ purls = <<>>
    /\ pchunks = <<>>

\* main.rs:24-33 on the URLs purls.
Partition ==
    /\ ppc = "input"
    /\ pchunks' = partition(purls)
    /\ ppc' = "done"
    /\ UNCHANGED purls
    /\ UNCHANGED <<dbVars, filterVars, webVars, cycleVars, backoffVars, moreVars>>

(***************************************************************************)
(* A cycle: check_for_ads and its worker tasks (main.rs:22-137).           *)
(***************************************************************************)
Scrapers == 1..MaxScrapers

\* The listings a fetched page may show, as extract_ads yields them; the titles
\* are strings of the filter's alphabet.
CycleAd1 ==
    [ad_id |-> get_ad_hash("item/1"), title |-> <<"a">>, price |-> "$1", url |-> "item/1"]
CycleAd2 ==
    [ad_id |-> get_ad_hash("item/2"), title |-> <<"b">>, price |-> "$2", url |-> "item/2"]
\* A listing no page shows any more.
CycleAd0 ==
    [ad_id |-> get_ad_hash("item/0"), title |-> <<"a">>, price |-> "$0", url |-> "item/0"]

\* A page source is taken as the cards of its listings, each with its link,
\* title and price.
EmptyPage == <<>>
PageTwo == <<CycleAd1, CycleAd2>>

\* The characters of the prices the pages show.
PriceText(p) ==
    CASE p = "$0" -> <<"$", "0">>
      [] p = "$1" -> <<"$", "1">>
      [] p = "$2" -> <<"$", "2">>
FreeText == <<"f", "r", "e", "e">>

\* scraper.rs:74-115: the cards whose price starts with the configured currency
\* symbol or says "free", in the order of the page.
extract_ads(content, currency) ==
    SelectSeq(content,
              LAMBDA ad : \/ starts_with(PriceText(ad.price), currency)
                          \/ contains(to_lowercase(PriceText(ad.price)), FreeText))

\* The URLs the browser may be at after goto.
Landed == <<"/", "a", "b">>
LoginLanding == <<"/", "L", "o", "g", "i", "n">>
CheckpointLanding == <<"/", "c", "h", "e", "c", "k", "p", "o", "i", "n", "t">>
LoginText == <<"l", "o", "g", "i", "n">>
CheckpointText == <<"c", "h", "e", "c", "k", "p", "o", "i", "n", "t">>

\* What the browser does on one attempt: whether goto succeeds, the URL it is
\* at afterwards, whether the ads element appears, and the page source.
Browser(goto, current_url, ads_loaded, source) ==
    [goto |-> goto, current_url |-> current_url, loaded |-> ads_loaded, source |-> source]
FetchEnvs ==
    { Browser(FALSE, <<>>, FALSE, EmptyPage),
      Browser(TRUE, LoginLanding, TRUE, EmptyPage),
      Browser(TRUE, CheckpointLanding, TRUE, EmptyPage),
      Browser(TRUE, Landed, FALSE, EmptyPage),
      Browser(TRUE, Landed, TRUE, EmptyPage),
      Browser(TRUE, Landed, TRUE, PageTwo) }

\* get_page_content without the soft-block detection.
get_page_content_no_check(env) ==
    IF ~env.goto THEN [ok |-> FALSE, content |-> <<>>]
    ELSE IF ~env.loaded THEN [ok |-> FALSE, content |-> <<>>]
    ELSE [ok |-> TRUE, content |-> env.source]

\* Scraper::get_page_content with an initialised driver: Err when goto fails,
\* when the URL reached contains "login" or "checkpoint", or when the ads
\* element never appears; else Ok(source).
get_page_content(env) ==
    IF ~env.goto THEN [ok |-> FALSE, content |-> <<>>]
    ELSE LET current_url == to_lowercase(env.current_url)
         IN IF contains(current_url, LoginText) \/ contains(current_url, CheckpointText)
            THEN [ok |-> FALSE, content |-> <<>>]
            ELSE IF ~env.loaded THEN [ok |-> FALSE, content |-> <<>>]
            ELSE [ok |-> TRUE, content |-> env.source]

\* Passes with no filter applied.
PassesAll(cfg, url, ad) == TRUE

\* main.rs:101: whether the candidate's title passes the filters of the URL.
Passes(cfg, url, ad) == CHOOSE b \in apply_filters(cfg.url_filters, url, ad.title) : TRUE

\* The positions of the candidates of `ads` that pass the filters.
Passing(cfg, url, ads) == { i \in 1..Len(ads) : Passes(cfg, url, ads[i]) }

\* candidate_loop stopping at the first storage error.
RECURSIVE candidate_loop_abort(_, _, _, _, _, _, _)
candidate_loop_abort(t, cfg, url, ads, i, errs, clock) ==
    IF i > Len(ads) THEN [table |-> t, calls |-> 0]
    ELSE IF ~Passes(cfg, url, ads[i])
    THEN candidate_loop_abort(t, cfg, url, ads, i + 1, errs, clock)
    ELSE IF i \in errs THEN [table |-> t, calls |-> 1]
    ELSE LET rest == candidate_loop_abort(
                         insert_or_update_ad(t, AdEntry(ads[i], clock, clock)).table,
                         cfg, url, ads, i + 1, errs, clock)
         IN [table |-> rest.table, calls |-> rest.calls + 1]

\* main.rs:100-119 from candidate i on: every candidate that passes the filter
\* is stamped and upserted; at the positions `errs` the store fails, the error
\* is logged (main.rs:116) and the loop goes on.  Yields the table afterwards
\* and how many insert_or_update_ad calls were made.
RECURSIVE candidate_loop(_, _, _, _, _, _, _)
candidate_loop(t, cfg, url, ads, i, errs, clock) ==
    IF i > Len(ads) THEN [table |-> t, calls |-> 0]
    ELSE IF ~Passes(cfg, url, ads[i])
    THEN candidate_loop(t, cfg, url, ads, i + 1, errs, clock)
    ELSE LET t2 == IF i \in errs THEN t
                   ELSE insert_or_update_ad(t, AdEntry(ads[i], clock, clock)).table
             rest == candidate_loop(t2, cfg, url, ads, i + 1, errs, clock)
         IN [table |-> rest.table, calls |-> rest.calls + 1]

\* The candidate positions at which the store may fail in one page.
ErrChoices == {{}, {1}}

\* No get_page_content attempt has been made in this cycle.
NoFetch == [absent |-> TRUE]

\* The configurations of the cycles: no URL, one filtered URL, and four URLs of
\* which the first is filtered.
FourUrls ==
    ("https://x" :> (Level1 :> << <<"A">> >>)) @@ ("https://y" :> <<>>)
    @@ ("https://z" :> <<>>) @@ ("https://w" :> <<>>)
ConfigFour == Config(5000, 15, FourUrls)
OtherConfig == Config(5000, 15, ("https://y" :> <<>>))
CycleConfigs == {FallbackConfig, ConfigFour}
\* Two URLs, for cycles of two workers with one URL each.
ConfigTwo == Config(5000, 15, ("https://x" :> (Level1 :> << <<"A">> >>)) @@ ("https://y" :> <<>>))
LoopConfigs == {FallbackConfig, ConfigTwo}
\* FilteredConfig with another refresh interval and another currency.
SlowConfig ==
    [Config(5000, 30, OneLevel("https://x", Level1)) EXCEPT !.currency = <<"E", "U", "R">>]
ReloadConfigs == {FallbackConfig, FilteredConfig, OtherConfig, SlowConfig}

\* The orders of keys() the cycles of the model see: two of KeyOrders(S), the
\* URLs in the order of UrlPool and in the reverse order.
PoolIndex(u) == CHOOSE i \in 1..Len(UrlPool) : UrlPool[i] = u
CycleOrders(S) ==
    { o \in KeyOrders(S) :
        \/ \A i, j \in 1..Len(o) : i < j => PoolIndex(o[i]) < PoolIndex(o[j])
        \/ \A i, j \in 1..Len(o) : i < j => PoolIndex(o[i]) > PoolIndex(o[j]) }

\* The URL worker w is at.
CurrentUrl(w) == chunks[w][kidx[w]]

\* AllJoined when one task has been awaited.
AnyJoined == \E w \in Scrapers : kpc[w] = "done"

\* main.rs:131-133: every spawned task has ended.
AllJoined == \A w \in Scrapers : kpc[w] \in {"none", "done"}

\* tokio's RwLock::read().await on AppState.config: `task` holds a read guard.
read_guard(g, task) == g \cup {task}

\* drop_guard with the guard kept alive by a binding of the whole function.
drop_guard_late(g, task) == g

\* The guard is dropped: at the end of the statement that cloned through it
\* (main.rs:23), at the end of the block that bound it (main.rs:190-193).
drop_guard(g, task) == g \ {task}

\* main.rs:42: the cycle's tasks start with Scraper::new(), no driver.
NewScrapers ==
    /\ quits' = [w \in Scrapers |-> 0]
    /\ session' = [w \in Scrapers |-> FALSE]

\* main.rs:189-193: the background loop begins an iteration (the first, or the
\* next once sleep(interval) has returned): it reads the refresh interval under
\* a read guard that the block drops, and calls check_for_ads.
ReadInterval ==
    /\ cpc = "sleep"
    /\ interval' = config.refresh_interval_minutes
    /\ guards' = drop_guard(read_guard(guards, "main"), "main")
    /\ cpc' = "start"
    /\ UNCHANGED <<chunks, prunes, kpc, kidx, kfails, init_success, driver, tried, lastFetch>>
    /\ UNCHANGED <<dbVars, filterVars, webVars, partVars, backoffVars, opVars, sessVars,
                   feedVars>>

\* CycleSkip with one task spawned for an empty chunk.
CycleSkipSpawning ==
    /\ cpc = "start"
    /\ DOMAIN config.url_filters = {}
    /\ cycleCfg' = config
    /\ chunks' = << <<>> >>
    /\ prunes' = 0
    /\ kpc' = [w \in Scrapers |-> IF w = 1 THEN "init" ELSE "none"]
    /\ kidx' = [w \in Scrapers |-> 0]
    /\ kfails' = [w \in Scrapers |-> 0]
    /\ init_success' = [w \in Scrapers |-> FALSE]
    /\ driver' = [w \in Scrapers |-> FALSE]
    /\ tried' = [w \in Scrapers |-> {}]
    /\ lastFetch' = NoFetch
    /\ cpc' = "join"
    /\ NewScrapers
    /\ guards' = drop_guard(read_guard(guards, "check_for_ads"), "check_for_ads")
    /\ UNCHANGED interval
    /\ UNCHANGED <<config, disk, loaded, rpc, rcfg, rstatus, nposts>>
    /\ UNCHANGED <<dbVars, filterVars, partVars, backoffVars, opVars, feedVars>>

\* main.rs:25-27: the configuration read at main.rs:23 names no URL:
\* check_for_ads returns, and main goes to its sleep (main.rs:199-200).
CycleSkip ==
    /\ cpc = "start"
    /\ DOMAIN config.url_filters = {}
    /\ cycleCfg' = config
    /\ chunks' = <<>>
    /\ prunes' = 0
    /\ kpc' = [w \in Scrapers |-> "none"]
    /\ kidx' = [w \in Scrapers |-> 0]
    /\ kfails' = [w \in Scrapers |-> 0]
    /\ init_success' = [w \in Scrapers |-> FALSE]
    /\ driver' = [w \in Scrapers |-> FALSE]
    /\ tried' = [w \in Scrapers |-> {}]
    /\ lastFetch' = NoFetch
    /\ cpc' = "sleep"
    /\ NewScrapers
    /\ guards' = drop_guard(read_guard(guards, "check_for_ads"), "check_for_ads")
    /\ UNCHANGED interval
    /\ UNCHANGED <<config, disk, loaded, rpc, rcfg, rstatus, nposts>>
    /\ UNCHANGED <<dbVars, filterVars, partVars, backoffVars, opVars, feedVars>>

\* CycleSpawn with the configuration of the first cycle kept for the later ones.
CycleSpawnCached ==
    LET cached == IF cycleCfg = NoConfig THEN config ELSE cycleCfg
    IN /\ cpc = "start"
       /\ DOMAIN cached.url_filters # {}
       /\ cycleCfg' = cached
       /\ \E urls \in CycleOrders(DOMAIN cached.url_filters) : chunks' = partition(urls)
       /\ prunes' = 0
       /\ kpc' = [w \in Scrapers |-> IF w <= Len(chunks') THEN "init" ELSE "none"]
       /\ kidx' = [w \in Scrapers |-> 0]
       /\ kfails' = [w \in Scrapers |-> 0]
       /\ init_success' = [w \in Scrapers |-> FALSE]
       /\ driver' = [w \in Scrapers |-> FALSE]
       /\ tried' = [w \in Scrapers |-> {}]
       /\ lastFetch' = NoFetch
       /\ cpc' = "join"
       /\ NewScrapers
       /\ guards' = drop_guard(read_guard(guards, "check_for_ads"), "check_for_ads")
       /\ UNCHANGED interval
       /\ UNCHANGED <<config, disk, loaded, rpc, rcfg, rstatus, nposts>>
       /\ UNCHANGED <<dbVars, filterVars, partVars, backoffVars, opVars, feedVars>>

\* main.rs:23-46, 128: the configuration is cloned, its URLs are partitioned in
\* the order keys() yields them, and one task per chunk is spawned, each with a
\* new Scraper and a new backoff.
CycleSpawn ==
    /\ cpc = "start"
    /\ DOMAIN config.url_filters # {}
    /\ cycleCfg' = config
    /\ \E urls \in CycleOrders(DOMAIN config.url_filters) : chunks' = partition(urls)
    /\ prunes' = 0
    /\ kpc' = [w \in Scrapers |-> IF w <= Len(chunks') THEN "init" ELSE "none"]
    /\ kidx' = [w \in Scrapers |-> 0]
    /\ kfails' = [w \in Scrapers |-> 0]
    /\ init_success' = [w \in Scrapers |-> FALSE]
    /\ driver' = [w \in Scrapers |-> FALSE]
    /\ tried' = [w \in Scrapers |-> {}]
    /\ lastFetch' = NoFetch
    /\ cpc' = "join"
    /\ NewScrapers
    /\ guards' = drop_guard(read_guard(guards, "check_for_ads"), "check_for_ads")
    /\ UNCHANGED interval
    /\ UNCHANGED <<config, disk, loaded, rpc, rcfg, rstatus, nposts>>
    /\ UNCHANGED <<dbVars, filterVars, partVars, backoffVars, opVars, feedVars>>

\* main.rs:50-63: scraper.init() fails and next_backoff yields a delay: the
\* worker sleeps and tries again.
InitFail(w) ==
    /\ kpc[w] = "init"
    /\ kfails' = [kfails EXCEPT ![w] = 1]
    /\ UNCHANGED <<cpc, chunks, prunes, kpc, kidx, init_success, driver, tried, lastFetch>>
    /\ UNCHANGED sessVars
    /\ UNCHANGED <<dbVars, filterVars, webVars, partVars, backoffVars, opVars, loopVars, feedVars>>

\* InitExhausted without the return: the worker goes on to its chunk.
InitExhaustedGoesOn(w) ==
    /\ kpc[w] = "init"
    /\ kpc' = [kpc EXCEPT ![w] = "fetch"]
    /\ kidx' = [kidx EXCEPT ![w] = 1]
    /\ kfails' = [kfails EXCEPT ![w] = 0]
    /\ UNCHANGED <<cpc, chunks, prunes, init_success, driver, tried, lastFetch>>
    /\ UNCHANGED sessVars
    /\ UNCHANGED <<dbVars, filterVars, webVars, partVars, backoffVars, opVars, loopVars, feedVars>>

\* main.rs:50-69: scraper.init() fails and next_backoff yields None:
\* init_success is false and the task returns.
InitExhausted(w) ==
    /\ kpc[w] = "init"
    /\ kpc' = [kpc EXCEPT ![w] = "done"]
    /\ kfails' = [kfails EXCEPT ![w] = 0]
    /\ UNCHANGED <<cpc, chunks, prunes, kidx, init_success, driver, tried, lastFetch>>
    /\ UNCHANGED sessVars
    /\ UNCHANGED <<dbVars, filterVars, webVars, partVars, backoffVars, opVars, loopVars, feedVars>>

\* main.rs:51-55, 71-76: scraper.init() succeeds; the worker turns to the
\* first URL of its chunk with a reset backoff.
InitOk(w) ==
    /\ kpc[w] = "init"
    /\ init_success' = [init_success EXCEPT ![w] = TRUE]
    /\ driver' = [driver EXCEPT ![w] = TRUE]
    /\ kpc' = [kpc EXCEPT ![w] = "fetch"]
    /\ kidx' = [kidx EXCEPT ![w] = 1]
    /\ kfails' = [kfails EXCEPT ![w] = 0]
    /\ UNCHANGED <<cpc, chunks, prunes, tried, lastFetch>>
    /\ session' = [session EXCEPT ![w] = TRUE]
    /\ UNCHANGED quits
    /\ UNCHANGED <<dbVars, filterVars, webVars, partVars, backoffVars, opVars, loopVars, feedVars>>

\* quit without the call to the driver: the session is left as it is.
quit_not(w) ==
    /\ driver' = [driver EXCEPT ![w] = FALSE]
    /\ UNCHANGED <<quits, session>>

\* scraper.rs:40-45, main.rs:125: Scraper::quit takes the driver out of the
\* Scraper and calls driver.quit(); when that returns Err the session may be
\* left open at the server, and `let _ =` drops the error.
quit(w) ==
    /\ driver' = [driver EXCEPT ![w] = FALSE]
    /\ IF driver[w]
       THEN /\ quits' = [quits EXCEPT ![w] = @ + 1]
            /\ \E open \in BOOLEAN : session' = [session EXCEPT ![w] = open]
       ELSE UNCHANGED <<quits, session>>

\* main.rs:131-133: a task ends abnormally (a panic inside a call it makes):
\* its Scraper is dropped without quit, and task.await yields a JoinError that
\* `let _ =` drops.
TaskAbort(w) ==
    /\ kpc[w] \in {"init", "fetch"}
    /\ kpc' = [kpc EXCEPT ![w] = "done"]
    /\ driver' = [driver EXCEPT ![w] = FALSE]
    /\ kfails' = [kfails EXCEPT ![w] = 0]
    /\ UNCHANGED <<cpc, chunks, prunes, kidx, init_success, tried, lastFetch>>
    /\ UNCHANGED sessVars
    /\ UNCHANGED <<dbVars, filterVars, webVars, partVars, backoffVars, opVars, loopVars, feedVars>>

\* main.rs:71-76, 125: the worker is through with its current URL: the next URL
\* of the chunk with a reset backoff, or scraper.quit() and the task ends.
Advance(w) ==
    IF kidx[w] < Len(chunks[w])
    THEN /\ kidx' = [kidx EXCEPT ![w] = @ + 1]
         /\ kfails' = [kfails EXCEPT ![w] = 0]
         /\ UNCHANGED <<kpc, driver, quits, session>>
    ELSE /\ kpc' = [kpc EXCEPT ![w] = "done"]
         /\ quit(w)
         /\ kfails' = [kfails EXCEPT ![w] = 0]
         /\ UNCHANGED kidx

\* main.rs:78-91: get_page_content fails and next_backoff yields a delay.
FetchFail(w) ==
    /\ kpc[w] = "fetch"
    /\ \E env \in FetchEnvs :
          /\ ~get_page_content(env).ok
          /\ lastFetch' = [env |-> env, ok |-> FALSE, errs |-> {}, calls |-> 0]
    /\ tried' = [tried EXCEPT ![w] = @ \cup {CurrentUrl(w)}]
    /\ kfails' = [kfails EXCEPT ![w] = 1]
    /\ UNCHANGED <<cpc, chunks, prunes, kpc, kidx, init_success, driver>>
    /\ UNCHANGED sessVars
    /\ UNCHANGED <<dbVars, filterVars, webVars, partVars, backoffVars, opVars, loopVars, feedVars>>

\* FetchExhausted with the task ending instead of the loop continuing.
FetchExhaustedQuits(w) ==
    /\ kpc[w] = "fetch"
    /\ \E env \in FetchEnvs :
          /\ ~get_page_content(env).ok
          /\ lastFetch' = [env |-> env, ok |-> FALSE, errs |-> {}, calls |-> 0]
    /\ tried' = [tried EXCEPT ![w] = @ \cup {CurrentUrl(w)}]
    /\ kpc' = [kpc EXCEPT ![w] = "done"]
    /\ kfails' = [kfails EXCEPT ![w] = 0]
    /\ UNCHANGED <<cpc, chunks, prunes, init_success, kidx>>
    /\ quit(w)
    /\ UNCHANGED <<dbVars, filterVars, webVars, partVars, backoffVars, opVars, loopVars, feedVars>>

\* main.rs:78-97: get_page_content fails and next_backoff yields None: content
\* is None, the failure is logged and the loop continues with the next URL.
FetchExhausted(w) ==
    /\ kpc[w] = "fetch"
    /\ \E env \in FetchEnvs :
          /\ ~get_page_content(env).ok
          /\ lastFetch' = [env |-> env, ok |-> FALSE, errs |-> {}, calls |-> 0]
    /\ tried' = [tried EXCEPT ![w] = @ \cup {CurrentUrl(w)}]
    /\ Advance(w)
    /\ UNCHANGED <<cpc, chunks, prunes, init_success>>
    /\ UNCHANGED <<dbVars, filterVars, webVars, partVars, backoffVars, opVars, loopVars, feedVars>>

\* The worker's configuration read from the shared one when it is used.
config_clone_live(w) == config

\* main.rs:38: the worker's configuration, cloned before the task is spawned
\* from the one check_for_ads cloned at main.rs:23 and moved into the task.
config_clone(w) == cycleCfg

\* main.rs:78-123: get_page_content succeeds; the candidates extract_ads finds
\* go through the filter and the store (with the worker's configuration), and
\* the worker moves on.
FetchOk(w) ==
    /\ kpc[w] = "fetch"
    /\ \E env \in FetchEnvs :
          LET got == get_page_content(env)
              ads == extract_ads(got.content, config_clone(w).currency)
          IN /\ got.ok
             /\ \E errs \in ErrChoices :
                   /\ errs \subseteq Passing(config_clone(w), CurrentUrl(w), ads)
                   /\ LET out == candidate_loop(table, config_clone(w), CurrentUrl(w),
                                                ads, 1, errs, now)
                      IN /\ table' = out.table
                         /\ lastFetch' = [env |-> env, ok |-> TRUE, errs |-> errs,
                                           calls |-> out.calls]
    /\ tried' = [tried EXCEPT ![w] = @ \cup {CurrentUrl(w)}]
    /\ Advance(w)
    /\ UNCHANGED <<cpc, chunks, prunes, init_success>>
    /\ UNCHANGED <<now, ticks, ncalls, wpc, entry, exists, res, pruned, recent>>
    /\ UNCHANGED <<filterVars, webVars, partVars, backoffVars, opVars, loopVars, feedVars>>

\* main.rs:131-136: every task has been awaited; prune_old_ads(14) succeeds.
JoinPrune ==
    /\ cpc = "join"
    /\ AllJoined
    /\ LET out == prune_old_ads(table, RetentionDays, now)
       IN /\ table' = out.table
          /\ pruned' = out.deleted
    /\ prunes' = prunes + 1
    /\ cpc' = "sleep"
    /\ UNCHANGED <<chunks, kpc, kidx, kfails, init_success, driver, tried, lastFetch>>
    /\ UNCHANGED sessVars
    /\ UNCHANGED <<now, ticks, ncalls, wpc, entry, exists, res, recent>>
    /\ UNCHANGED <<filterVars, webVars, partVars, backoffVars, opVars, loopVars, feedVars>>

\* JoinPruneFail with the error ending the background task.
JoinPruneFailStops ==
    /\ cpc = "join"
    /\ AllJoined
    /\ pruned' = -1
    /\ prunes' = prunes + 1
    /\ cpc' = "stopped"
    /\ UNCHANGED <<chunks, kpc, kidx, kfails, init_success, driver, tried, lastFetch>>
    /\ UNCHANGED sessVars
    /\ UNCHANGED <<now, ticks, ncalls, table, wpc, entry, exists, res, recent>>
    /\ UNCHANGED <<filterVars, webVars, partVars, backoffVars, opVars, loopVars, feedVars>>

\* main.rs:131-136: every task has been awaited; prune_old_ads(14) returns Err,
\* which `let _ =` drops.
JoinPruneFail ==
    /\ cpc = "join"
    /\ AllJoined
    /\ pruned' = -1
    /\ prunes' = prunes + 1
    /\ cpc' = "sleep"
    /\ UNCHANGED <<chunks, kpc, kidx, kfails, init_success, driver, tried, lastFetch>>
    /\ UNCHANGED sessVars
    /\ UNCHANGED <<now, ticks, ncalls, table, wpc, entry, exists, res, recent>>
    /\ UNCHANGED <<filterVars, webVars, partVars, backoffVars, opVars, loopVars, feedVars>>

\* web.rs:83-115 for a valid configuration, uninterrupted: validate passes, the
\* file is written, the write lock is taken (no read guard is out) and the
\* shared configuration is replaced, 200 OK.
UpdateConfigOk ==
    /\ nposts < MaxPosts
    /\ guards = {}
    /\ \E c \in ReloadConfigs :
          /\ validate(c)
          /\ c # config
          /\ config' = c
          /\ disk' = Serialized(c)
    /\ nposts' = nposts + 1
    /\ UNCHANGED <<loaded, rpc, rcfg, rstatus, cycleCfg>>
    /\ UNCHANGED <<dbVars, filterVars, pipeVars>>

\* No feed has been requested.
NoFeed == [absent |-> TRUE]

InitCycle ==
    /\ cpc = "sleep"
    /\ chunks = <<>>
    /\ prunes = 0
    /\ kpc = [w \in Scrapers |-> "none"]
    /\ kidx = [w \in Scrapers |-> 0]
    /\ kfails = [w \in Scrapers |-> 0]
    /\ init_success = [w \in Scrapers |-> FALSE]
    /\ driver = [w \in Scrapers |-> FALSE]
    /\ tried = [w \in Scrapers |-> {}]
    /\ lastFetch = NoFetch
    /\ interval = 0
    /\ guards = {}
    /\ quits = [w \in Scrapers |-> 0]
    /\ session = [w \in Scrapers |-> FALSE]
    /\ feed = NoFeed

\* The row of a listing last seen before the retention horizon.
StaleRow == InsertedRow(AdEntry(CycleAd0, 0, 0))

\* The store when the process starts on a database file written more than the
\* retention horizon ago: it holds a stale row.
InitCycleDb ==
    /\ now = Days(RetentionDays) + 1
    /\ ticks = 0
    /\ ncalls = 0
    /\ table = <<StaleRow>>
    /\ wpc = [w \in Workers |-> "idle"]
    /\ entry = [w \in Workers |-> None]
    /\ exists = [w \in Workers |-> FALSE]
    /\ res = [w \in Workers |-> None]
    /\ pruned = 0
    /\ recent = <<>>

\* The configuration the process starts with, one of `configs`.
InitConfig(configs) ==
    /\ loaded \in configs
    /\ config = loaded
    /\ disk = Serialized(loaded)
    /\ rpc = [r \in Requests |-> "idle"]
    /\ rcfg = [r \in Requests |-> NoConfig]
    /\ rstatus = [r \in Requests |-> 0]
    /\ nposts = 0
    /\ cycleCfg = NoConfig

(***************************************************************************)
(* One retry loop and its backoff (main.rs:43-64 and 74-92).  Times are in *)
(* milliseconds.  ExponentialBackoff is the backoff crate's: Default sets  *)
(* initial_interval 500 ms, randomization_factor 0.5, multiplier 1.5 and   *)
(* max_interval 60 s; main.rs:44 sets max_elapsed_time to 60 s.            *)
(***************************************************************************)
initial_interval == 500
max_interval == 60000
max_elapsed_time == 60000

\* ExponentialBackoff::increment_current_interval: times 1.5, capped.
increment_current_interval(cur) ==
    IF 3 * cur >= 2 * max_interval THEN max_interval ELSE cur + cur \div 2

\* The jittered delays next_backoff may draw around `cur`: the least and the
\* greatest of [cur - cur/2, cur + cur/2].
RandomizedIntervals(cur) == {cur - cur \div 2, cur + cur \div 2}

\* ExponentialBackoff::next_backoff at elapsed time e: the delays it may return,
\* or {None} when it reports exhaustion: the ceiling is passed, or would be by
\* the end of the delay.
NoDelay == -1
next_backoff(e, cur) ==
    IF e > max_elapsed_time THEN {NoDelay}
    ELSE { IF e + r <= max_elapsed_time THEN r ELSE NoDelay : r \in RandomizedIntervals(cur) }

\* How long one attempt of the operation may take before it returns.
AttemptTimes == {0, 1000 * MaxAttemptSecs}

\* slept without the sleep.
slept_not(e, dur, d) == e + dur

\* The elapsed time after an attempt of duration dur has failed and
\* sleep(delay) has returned (main.rs:61, main.rs:89).
slept(e, dur, d) == e + dur + d

\* An ExponentialBackoff, as far as next_backoff reads it.
Backoff(e, cur) == [elapsed |-> e, current_interval |-> cur]

\* main.rs:43-46: the task's backoff when it is built.
NewBackoff == Backoff(0, initial_interval)

\* The task's `backoff` after a step of the running loop that takes the loop's
\* instance to (e, cur): the init loop runs on `backoff` itself, a fetch loop
\* on a clone, while `backoff` only grows older.
Aged(e, cur) ==
    IF bop = 0 THEN Backoff(e, cur)
    ELSE [backoff EXCEPT !.elapsed = @ + (e - elapsed)]

InitBackoff ==
    /\ bpc = "check"
    /\ elapsed = 0
    /\ current_interval = initial_interval
    /\ delay = NoDelay
    /\ bop = 0
    /\ backoff = NewBackoff

\* The loop at rest, for the other specifications.
InitBackoffIdle ==
    /\ bpc = "idle"
    /\ elapsed = 0
    /\ current_interval = initial_interval
    /\ delay = NoDelay
    /\ bop = 0
    /\ backoff = NewBackoff

\* `while let Some(delay) = backoff.next_backoff()`: a delay is returned.
BackoffSome ==
    /\ bpc = "check"
    /\ \E d \in next_backoff(elapsed, current_interval) :
          /\ d # NoDelay
          /\ delay' = d
    /\ current_interval' = increment_current_interval(current_interval)
    /\ bpc' = "attempt"
    /\ UNCHANGED elapsed
    /\ backoff' = Aged(elapsed', current_interval')
    /\ UNCHANGED bop
    /\ UNCHANGED <<dbVars, filterVars, webVars, partVars, cycleVars, loopVars, sessVars, feedVars>>

\* `while let Some(delay) = backoff.next_backoff()`: None, the loop ends.
BackoffNone ==
    /\ bpc = "check"
    /\ NoDelay \in next_backoff(elapsed, current_interval)
    /\ delay' = NoDelay
    /\ current_interval' =
          IF elapsed > max_elapsed_time THEN current_interval
          ELSE increment_current_interval(current_interval)
    /\ bpc' = "exhausted"
    /\ UNCHANGED elapsed
    /\ backoff' = Aged(elapsed', current_interval')
    /\ UNCHANGED bop
    /\ UNCHANGED <<dbVars, filterVars, webVars, partVars, cycleVars, loopVars, sessVars, feedVars>>

\* The attempt returns Err: the warning is logged and the task sleeps.
AttemptFail ==
    /\ bpc = "attempt"
    /\ \E dur \in AttemptTimes : elapsed' = slept(elapsed, dur, delay)
    /\ bpc' = "check"
    /\ UNCHANGED <<current_interval, delay>>
    /\ backoff' = Aged(elapsed', current_interval')
    /\ UNCHANGED bop
    /\ UNCHANGED <<dbVars, filterVars, webVars, partVars, cycleVars, loopVars, sessVars, feedVars>>

\* The attempt returns Ok: break.
AttemptOk ==
    /\ bpc = "attempt"
    /\ \E dur \in AttemptTimes : elapsed' = elapsed + dur
    /\ bpc' = "ok"
    /\ UNCHANGED <<current_interval, delay>>
    /\ backoff' = Aged(elapsed', current_interval')
    /\ UNCHANGED bop
    /\ UNCHANGED <<dbVars, filterVars, webVars, partVars, cycleVars, loopVars, sessVars, feedVars>>

\* The states the task's `backoff` may be in when a URL of the chunk is taken
\* up: young or older than the ceiling, its current_interval raised once (the
\* init loop succeeded at once) or twice.
SpentBackoffs ==
    { Backoff(e, cur) :
        e \in {0, max_elapsed_time + 1},
        cur \in { increment_current_interval(initial_interval),
                  increment_current_interval(increment_current_interval(initial_interval)) } }

\* A task at main.rs:71 with the next URL of its chunk: the init loop (bop 0)
\* or the fetch loop of the URL before (bop 1) has ended and left its instance
\* in some state, and `backoff` has grown as old as the task.
InitFetchBackoff ==
    /\ bpc = "url"
    /\ bop \in {0, 1}
    /\ backoff \in SpentBackoffs
    /\ IF bop = 0
       THEN elapsed = backoff.elapsed /\ current_interval = backoff.current_interval
       ELSE \E b \in SpentBackoffs :
               elapsed = b.elapsed /\ current_interval = b.current_interval
    /\ delay = NoDelay

\* Clone for ExponentialBackoff (derived): a copy of every field.
clone(b) == b

\* reset mistaken for a no-op.
reset_not(b) == b

\* ExponentialBackoff::reset: current_interval = initial_interval and
\* start_time = now, so that no time has elapsed.
reset(b) == [b EXCEPT !.current_interval = initial_interval, !.elapsed = 0]

\* main.rs:74-78: fetch_backoff = backoff.clone(); fetch_backoff.reset(); the
\* fetch loop of the URL runs on fetch_backoff.
FetchBackoff ==
    /\ bpc = "url"
    /\ LET fetch_backoff == reset(clone(backoff))
       IN /\ elapsed' = fetch_backoff.elapsed
          /\ current_interval' = fetch_backoff.current_interval
    /\ delay' = NoDelay
    /\ bpc' = "check"
    /\ bop' = bop + 1
    /\ UNCHANGED backoff
    /\ UNCHANGED <<dbVars, filterVars, webVars, partVars, cycleVars, loopVars, sessVars, feedVars>>

\* The three models at rest, for the specifications about the store, the
\* filter and the config endpoint.
InitPipeIdle == InitPartitionIdle /\ InitCycle /\ InitBackoffIdle

(***************************************************************************)
(* Steps of the store and its callers.                                     *)
(***************************************************************************)
\* The amounts the clock may advance by between two steps: to the next
\* instant, by the feed's window, by the retention horizon.
Jumps == {1, Days(RecentDays), Days(RetentionDays)}
\* The same without the feed's window, where no feed is served.
RaceJumps == {1, Days(RetentionDays)}

\* Time passes: the clock advances by one of `jumps`.
Tick(jumps) ==
    /\ ticks < MaxTicks
    /\ \E d \in jumps : now' = now + d
    /\ ticks' = ticks + 1
    /\ UNCHANGED <<ncalls, table, wpc, entry, exists, res, pruned, recent>>
    /\ UNCHANGED <<filterVars, webVars, pipeVars>>

\* main.rs:100-117 for one candidate that passed the filter, uninterrupted:
\* both clock reads (in the same instant) and the whole insert_or_update_ad.
Sighting(w) ==
    /\ ncalls < MaxCalls
    /\ \E c \in Candidates :
         LET e == AdEntry(c, now, now)
             out == insert_or_update_ad(table, e)
         IN /\ entry' = [entry EXCEPT ![w] = e]
            /\ table' = out.table
            /\ res' = [res EXCEPT ![w] = out.res]
    /\ ncalls' = ncalls + 1
    /\ UNCHANGED <<now, ticks, wpc, exists, pruned, recent>>
    /\ UNCHANGED <<filterVars, webVars, pipeVars>>

\* main.rs:102-109: a worker builds the AdEntry of a candidate that passed the
\* filter.  first_seen and last_checked are two reads of the clock, which may
\* advance by any of `jumps` between them.
Stamp(w, jumps) ==
    /\ wpc[w] = "idle"
    /\ ncalls < MaxCalls
    /\ \E c \in Candidates :
         \E d \in {0} \cup (IF ticks < MaxTicks THEN jumps ELSE {}) :
            /\ entry' = [entry EXCEPT ![w] = AdEntry(c, now, now + d)]
            /\ now' = now + d
            /\ ticks' = IF d = 0 THEN ticks ELSE ticks + 1
    /\ wpc' = [wpc EXCEPT ![w] = "call"]
    /\ res' = [res EXCEPT ![w] = None]
    /\ ncalls' = ncalls + 1
    /\ UNCHANGED <<table, exists, pruned, recent>>
    /\ UNCHANGED <<filterVars, webVars, pipeVars>>

\* db.rs:47-48: the SELECT of insert_or_update_ad.
UpsertSelectStep(w) ==
    /\ wpc[w] = "call"
    /\ exists' = [exists EXCEPT ![w] = Exists(table, entry[w].ad_id)]
    /\ wpc' = [wpc EXCEPT ![w] = "write"]
    /\ UNCHANGED <<now, ticks, ncalls, table, entry, res, pruned, recent>>
    /\ UNCHANGED <<filterVars, webVars, pipeVars>>

\* db.rs:50-64: the INSERT or UPDATE of insert_or_update_ad, and its return.
UpsertWriteStep(w) ==
    /\ wpc[w] = "write"
    /\ LET out == UpsertWrite(table, entry[w], exists[w])
       IN /\ table' = out.table
          /\ res' = [res EXCEPT ![w] = out.res]
    /\ wpc' = [wpc EXCEPT ![w] = "idle"]
    /\ exists' = [exists EXCEPT ![w] = FALSE]
    /\ UNCHANGED <<now, ticks, ncalls, entry, pruned, recent>>
    /\ UNCHANGED <<filterVars, webVars, pipeVars>>

\* main.rs:131-135: once every worker task has been awaited, prune_old_ads(14).
Prune ==
    /\ \A w \in Workers : wpc[w] = "idle"
    /\ LET out == prune_old_ads(table, RetentionDays, now)
       IN /\ table' = out.table
          /\ pruned' = out.deleted
    /\ UNCHANGED <<now, ticks, ncalls, wpc, entry, exists, res, recent>>
    /\ UNCHANGED <<filterVars, webVars, pipeVars>>

\* web.rs:53: the feed request's get_recent_ads(7).
Query ==
    /\ \E r \in get_recent_ads(table, RecentDays, now) : recent' = r
    /\ UNCHANGED <<now, ticks, ncalls, table, wpc, entry, exists, res, pruned>>
    /\ UNCHANGED <<filterVars, webVars, pipeVars>>

\* rss_gen.rs:10-22: the item built for one entry.  to_rfc2822 keeps the date
\* and the time of day to the second.
Item(e) ==
    [title |-> <<e.title, " - ", e.price>>,
     link |-> e.url,
     description |-> <<"Price: ", e.price, " | Title: ", e.title>>,
     guid |-> e.ad_id,
     pub_date |-> DayOf(e.last_checked)]

\* generate_rss with the items in the reverse order.
generate_rss_reversed(entries, server_port, clock) ==
    [link |-> <<"http://", server_port, "/rss">>,
     last_build_date |-> DayOf(clock),
     items |-> [k \in 1..Len(entries) |-> Item(entries[Len(entries) + 1 - k])]]

\* rss_gen.rs:6-35: the channel with one item per entry, in the order of
\* `entries` (the server_ip of the link is left out, as in Config).
generate_rss(entries, server_port, clock) ==
    [link |-> <<"http://", server_port, "/rss">>,
     last_build_date |-> DayOf(clock),
     items |-> [k \in 1..Len(entries) |-> Item(entries[k])]]

\* web.rs:52-76: GET /rss: get_recent_ads(7) succeeds, the configuration is
\* read under a guard that the handler drops when it returns, and the
\* document is generated (generate_rss has no Err path): 200.
RssFeed ==
    /\ \E ads \in get_recent_ads(table, RecentDays, now) :
          /\ recent' = ads
          /\ feed' = [status |-> 200, body |-> generate_rss(ads, config.server_port, now)]
    /\ guards' = drop_guard(read_guard(guards, "rss_feed"), "rss_feed")
    /\ UNCHANGED <<now, ticks, ncalls, table, wpc, entry, exists, res, pruned>>
    /\ UNCHANGED <<filterVars, webVars, partVars, cycleVars, backoffVars, opVars, sessVars,
                   interval>>

\* web.rs:53-62: get_recent_ads returns Err: 500 "Database error".
RssFeedFail ==
    /\ feed' = [status |-> 500, body |-> "Database error"]
    /\ UNCHANGED <<dbVars, filterVars, webVars>>
    /\ UNCHANGED <<partVars, cycleVars, backoffVars, opVars, loopVars, sessVars>>

\* The store when the process starts with an empty database.  The clock starts
\* RetentionDays after day 0, so that every cutoff is an instant of the model.
InitDb ==
    /\ now = Days(RetentionDays)
    /\ ticks = 0
    /\ ncalls = 0
    /\ table = <<>>
    /\ wpc = [w \in Workers |-> "idle"]
    /\ entry = [w \in Workers |-> None]
    /\ exists = [w \in Workers |-> FALSE]
    /\ res = [w \in Workers |-> None]
    /\ pruned = 0
    /\ recent = <<>>

\* The filter and the endpoint at rest, for the specifications about the store.
InitFilterIdle ==
    /\ fpc = "idle"
    /\ url_filters = <<>>
    /\ furl = None
    /\ ftitle = <<>>
    /\ fresult = TRUE

(***************************************************************************)
(* SpecStore: the store used by one caller at a time.                      *)
(***************************************************************************)
\* The one caller of SpecStore.
Caller == "w1"

InitStore == InitDb /\ InitFilterIdle /\ InitWebIdle /\ InitPipeIdle

NextStore ==
    \/ Tick(Jumps)
    \/ Sighting(Caller)
    \/ Prune
    \/ Query

SpecStore == InitStore /\ [][NextStore]_vars

(***************************************************************************)
(* SpecRace: the store used by the parallel workers of a cycle.            *)
(***************************************************************************)
NextRace ==
    \/ Tick(RaceJumps)
    \/ \E w \in Workers : Stamp(w, RaceJumps)
    \/ \E w \in Workers : UpsertSelectStep(w)
    \/ \E w \in Workers : UpsertWriteStep(w)
    \/ Prune

SpecRace == InitStore /\ [][NextRace]_vars

(***************************************************************************)
(* SpecFeed: feed requests at any moment of a worker's sightings (between  *)
(* its clock reads, its SELECT and its write) and of the prune.            *)
(***************************************************************************)
\* The clock advances by the feed's window.
FeedJumps == {Days(RecentDays)}

NextFeed ==
    \/ Tick(FeedJumps)
    \/ Stamp(Caller, FeedJumps)
    \/ UpsertSelectStep(Caller)
    \/ UpsertWriteStep(Caller)
    \/ Prune
    \/ RssFeed
    \/ RssFeedFail

SpecFeed == InitStore /\ [][NextFeed]_vars

(***************************************************************************)
(* Claims about the store.                                                 *)
(***************************************************************************)
\* The instants a row's two timestamp texts denote.
FirstSeenOf(row) == parse_from_rfc3339(row.first_seen, -1)
LastCheckedOf(row) == parse_from_rfc3339(row.last_checked, -1)

\* A listing with this ad_id is in the store.
Stored(t, id) == \E i \in 1..Len(t) : t[i].ad_id = id

\* This step is an upsert call of SpecStore's caller.
UpsertCall == ncalls' = ncalls + 1

\* C1: an upsert returns is_new = true exactly when no listing with its ad_id is in
\* the store when it is called, and false when one is.
C1_IsNewIffAbsent ==
    [][UpsertCall =>
        res'[Caller] = IF Stored(table, entry'[Caller].ad_id) THEN "old" ELSE "new"]_vars

\* C1's case: the same listing upserted twice, answered true and then false.
C1_Witness == ncalls = 2 /\ Len(table) = 1 /\ res[Caller] = "old"

\* C2: an upsert of a stored ad_id replaces title, price and last_checked by those
\* of the new sighting and leaves first_seen, ad_id and url, and every other
\* row, as they were.
C2_UpdateKeepsFirstSeen ==
    [][(UpsertCall /\ Stored(table, entry'[Caller].ad_id)) =>
        LET e == entry'[Caller]
        IN /\ Len(table') = Len(table)
           /\ \A i \in 1..Len(table) :
                IF table[i].ad_id = e.ad_id
                THEN /\ table'[i].title = e.title
                     /\ table'[i].price = e.price
                     /\ LastCheckedOf(table'[i]) = e.last_checked
                     /\ table'[i].first_seen = table[i].first_seen
                     /\ table'[i].ad_id = table[i].ad_id
                     /\ table'[i].url = table[i].url
                ELSE table'[i] = table[i]]_vars

\* C2's case: a listing sighted again later: first_seen is the first sighting's
\* instant, last_checked the second's.
C2_Witness ==
    /\ ncalls = 2
    /\ res[Caller] = "old"
    /\ Len(table) = 1
    /\ FirstSeenOf(table[1]) < LastCheckedOf(table[1])
    /\ LastCheckedOf(table[1]) = entry[Caller].last_checked
    /\ table[1].price = entry[Caller].price

\* Worker w has made an upsert call that has returned.
Returned(w) == wpc[w] = "idle" /\ res[w] # None

\* C3: upsert is atomic per ad_id: when two workers upsert the same ad_id
\* concurrently, both calls succeed, as they would one after the other.
C3_UpsertAtomic ==
    \A v, w \in Workers :
        (v # w /\ Returned(v) /\ Returned(w) /\ entry[v].ad_id = entry[w].ad_id)
        => (res[v] # "err" /\ res[w] # "err")

\* C4: no two stored listings have the same ad_id.
C4_UniqueAdId ==
    \A i, j \in 1..Len(table) : i # j => table[i].ad_id # table[j].ad_id

\* C4's case: two workers raced to insert the same ad_id; one row was stored.
C4_Witness ==
    /\ Len(table) = 1
    /\ \E v, w \in Workers :
         /\ Returned(v) /\ Returned(w)
         /\ entry[v].ad_id = entry[w].ad_id
         /\ res[v] = "new" /\ res[w] = "err"

\* C5: every stored listing has first_seen <= last_checked.
C5_FirstSeenLeLastChecked ==
    \A i \in 1..Len(table) : FirstSeenOf(table[i]) <= LastCheckedOf(table[i])

\* This step is a prune that deleted rows or changed the count it reports.
PruneCall == pruned' # pruned \/ Len(table') < Len(table)

\* C6: prune removes exactly the listings whose last_checked is earlier than
\* now - 14 days, leaves the others as they were, and returns the number removed.
C6_PruneExact ==
    [][PruneCall =>
        /\ table' = SelectSeq(table,
                LAMBDA row : LastCheckedOf(row) >= now - Days(RetentionDays))
        /\ pruned' = Len(table) - Len(table')]_vars

\* C6's case: of two listings the one older than the horizon was removed, and the
\* one exactly at the horizon was kept.
C6_Witness ==
    /\ ncalls = 2
    /\ pruned = 1
    /\ Len(table) = 1
    /\ LastCheckedOf(table[1]) = now - Days(RetentionDays)

\* This step is a feed query whose result differs from the one before.
QueryCall == recent' # recent

\* C7: query_recent returns exactly the stored listings with
\* last_checked >= now - 7 days, each once, most recent first.
C7_QueryExact ==
    [][QueryCall =>
        LET want == { i \in 1..Len(table) :
                        LastCheckedOf(table[i]) >= now - Days(RecentDays) }
        IN /\ Len(recent') = Cardinality(want)
           /\ \A i \in want :
                \E k \in 1..Len(recent') :
                   /\ recent'[k].ad_id = table[i].ad_id
                   /\ recent'[k].title = table[i].title
                   /\ recent'[k].price = table[i].price
                   /\ recent'[k].url = table[i].url
                   /\ recent'[k].first_seen = FirstSeenOf(table[i])
                   /\ recent'[k].last_checked = LastCheckedOf(table[i])
           /\ \A k, l \in 1..Len(recent') :
                k < l => recent'[k].last_checked >= recent'[l].last_checked]_vars

\* C7's case: the feed query answered with two listings, the later sighting first,
\* and the store has not changed since.
C7_Witness ==
    /\ Len(recent) = 2
    /\ recent[1].last_checked > recent[2].last_checked
    /\ recent \in get_recent_ads(table, RecentDays, now)

(***************************************************************************)
(* SpecFilter: apply_filters on every input of the bounded sets.           *)
(***************************************************************************)
InitFilterSpec == InitFilter /\ InitDb /\ InitWebIdle /\ InitPipeIdle

NextFilter == Evaluate

SpecFilter == InitFilterSpec /\ [][NextFilter]_vars

(***************************************************************************)
(* Claims about the filter.                                                *)
(***************************************************************************)
\* The name has the form level<digits>, with at least one digit.
LevelDigitsName(k) ==
    /\ Len(k) > Len(LevelPrefix)
    /\ SubSeq(k, 1, Len(LevelPrefix)) = LevelPrefix
    /\ \A i \in (Len(LevelPrefix) + 1)..Len(k) : k[i] \in DigitChars

\* The levels configured for the URL asked about (none when it has no entry).
LevelsOfUrl == IF furl \in DOMAIN url_filters THEN url_filters[furl] ELSE <<>>

\* kw is a case-insensitive substring of title.
CISubstring(kw, title) ==
    \E i \in 0..(Len(title) - Len(kw)) :
        \A j \in 1..Len(kw) : LowerChar(title[i + j]) = LowerChar(kw[j])

\* The level's keyword list is empty or has a keyword occurring in the title.
LevelSatisfied(keywords, title) ==
    keywords = <<>> \/ \E n \in 1..Len(keywords) : CISubstring(keywords[n], title)

\* C8: in a filter configuration (level names of the form level<digits>),
\* apply_filters returns true iff every level with a non-empty keyword list has a
\* keyword that is a case-insensitive substring of the title.
C8_AndOfOrs ==
    (fpc = "done" /\ \A k \in DOMAIN LevelsOfUrl : LevelDigitsName(k))
    => (fresult <=> \A k \in DOMAIN LevelsOfUrl : LevelSatisfied(LevelsOfUrl[k], ftitle))

\* C8's case: level1 has a keyword in the title, level2 has keywords but none in
\* the title, and the title was rejected.
C8_Witness ==
    /\ fpc = "done"
    /\ DOMAIN LevelsOfUrl = {Level1, Level2}
    /\ LevelsOfUrl[Level1] # <<>>
    /\ LevelSatisfied(LevelsOfUrl[Level1], ftitle)
    /\ ~LevelSatisfied(LevelsOfUrl[Level2], ftitle)
    /\ fresult = FALSE

\* The configuration without the levels whose names are not level<digits>.
WithoutMalformed(uf) ==
    [u \in DOMAIN uf |->
        [k \in { n \in DOMAIN uf[u] : LevelDigitsName(n) } |-> uf[u][k]]]

\* C9: a level whose name is not level<digits> (levelA, invalid-level, the bare
\* name level) is ignored: the result is the one the configuration gives without it.
C9_MalformedIgnored ==
    fpc = "done" => fresult \in apply_filters(WithoutMalformed(url_filters), furl, ftitle)

(***************************************************************************)
(* SpecWeb: config-update requests, served concurrently, and cycle starts. *)
(***************************************************************************)
InitWebSpec == InitWeb /\ InitDb /\ InitFilterIdle /\ InitPipeIdle

NextWeb ==
    \/ \E r \in Requests : Post(r)
    \/ \E r \in Requests : Reject(r)
    \/ \E r \in Requests : Save(r)
    \/ \E r \in Requests : SaveFail(r)
    \/ \E r \in Requests : Apply(r)
    \/ CycleStart

SpecWeb == InitWebSpec /\ [][NextWeb]_vars

(***************************************************************************)
(* Claims about the config endpoint.                                       *)
(***************************************************************************)
\* The URLs of the model that are not a well-formed http(s) URL with a host.
MalformedUrls == {"not-a-url", "mailto:a"}

\* The configuration is one the endpoint must refuse: port 0, refresh interval 0,
\* a malformed URL, or a level name not of the form level<digits>.
MustRefuse(c) ==
    \/ c.server_port = 0
    \/ c.refresh_interval_minutes = 0
    \/ \E u \in DOMAIN c.url_filters :
          \/ u \in MalformedUrls
          \/ \E k \in DOMAIN c.url_filters[u] : ~LevelDigitsName(k)

\* Request r's handler takes its first step past the posted body.
Handled(r) == rpc[r] = "posted" /\ rpc'[r] # "posted"

\* C10: a config update that must be refused is answered 400 and changes neither
\* the shared configuration nor the file, and no cycle clones a configuration
\* that was refused (a cycle's configuration is the start-up one or a valid one).
C10_RejectMutatesNothing ==
    [][/\ \A r \in Requests :
            (Handled(r) /\ MustRefuse(rcfg[r]))
            => (rstatus'[r] = 400 /\ config' = config /\ disk' = disk)
       /\ (cycleCfg' # cycleCfg) => (cycleCfg' = loaded \/ ~MustRefuse(cycleCfg'))]_vars

\* C10's case: one request was refused with 400 while another was applied, and a
\* cycle has started with the applied configuration.
C10_Witness ==
    /\ \E r, q \in Requests : rstatus[r] = 400 /\ rstatus[q] = 200
    /\ config # loaded
    /\ cycleCfg = config
    /\ disk = Serialized(config)

(***************************************************************************)
(* SpecPartition: the partitioning of every ordered set of URLs.           *)
(***************************************************************************)
InitPartitionSpec ==
    InitPartition /\ InitDb /\ InitFilterIdle /\ InitWebIdle /\ InitCycle /\ InitBackoffIdle

NextPartition == Partition

SpecPartition == InitPartitionSpec /\ [][NextPartition]_vars

(***************************************************************************)
(* SpecCycle: cycles of check_for_ads under one configuration, the workers *)
(* of a cycle running in parallel.  SpecReload: the same with updates of   *)
(* the configuration at any moment.                                        *)
(***************************************************************************)
InitCycleSpec(configs) ==
    /\ InitCycle /\ InitCycleDb /\ InitConfig(configs)
    /\ InitFilterIdle /\ InitPartitionIdle /\ InitBackoffIdle

NextCycle ==
    \/ ReadInterval
    \/ CycleSkip
    \/ CycleSpawn
    \/ \E w \in Scrapers : InitFail(w)
    \/ \E w \in Scrapers : InitExhausted(w)
    \/ \E w \in Scrapers : InitOk(w)
    \/ \E w \in Scrapers : FetchFail(w)
    \/ \E w \in Scrapers : FetchExhausted(w)
    \/ \E w \in Scrapers : FetchOk(w)
    \/ JoinPrune
    \/ JoinPruneFail

SpecCycle == InitCycleSpec(CycleConfigs) /\ [][NextCycle]_vars

NextReload == NextCycle \/ UpdateConfigOk

SpecReload == InitCycleSpec(ReloadConfigs) /\ [][NextReload]_vars

(***************************************************************************)
(* SpecLoop: the background loop for ever, with tasks that may end         *)
(* abnormally.  Every call returns: the sleep, the read of the             *)
(* configuration, every retry loop (it ends in success or exhaustion, see  *)
(* SpecBackoff), the join and the prune.                                   *)
(***************************************************************************)
NextLoop == NextCycle \/ \E w \in Scrapers : TaskAbort(w)

SpecLoop ==
    /\ InitCycleSpec(LoopConfigs)
    /\ [][NextLoop]_vars
    /\ WF_vars(ReadInterval)
    /\ WF_vars(CycleSkip \/ CycleSpawn)
    /\ \A w \in Scrapers : WF_vars(InitExhausted(w) \/ InitOk(w))
    /\ \A w \in Scrapers : WF_vars(FetchExhausted(w) \/ FetchOk(w))
    /\ WF_vars(JoinPrune \/ JoinPruneFail)

(***************************************************************************)
(* SpecBackoff: one retry loop; the task keeps being scheduled, and every  *)
(* attempt and every sleep returns.                                        *)
(***************************************************************************)
InitBackoffSpec ==
    /\ InitBackoff /\ InitDb /\ InitFilterIdle /\ InitWebIdle
    /\ InitPartitionIdle /\ InitCycle

NextBackoff == BackoffSome \/ BackoffNone \/ AttemptFail \/ AttemptOk

SpecBackoff == InitBackoffSpec /\ [][NextBackoff]_vars /\ WF_vars(NextBackoff)

(***************************************************************************)
(* SpecFetchBackoff: one iteration of `for url in chunk`, from every state *)
(* the loops before it may have left the task's backoff in.                *)
(***************************************************************************)
InitFetchBackoffSpec ==
    /\ InitFetchBackoff /\ InitDb /\ InitFilterIdle /\ InitWebIdle
    /\ InitPartitionIdle /\ InitCycle

NextFetchBackoff == FetchBackoff \/ NextBackoff

SpecFetchBackoff == InitFetchBackoffSpec /\ [][NextFetchBackoff]_vars

(***************************************************************************)
(* Claims about the partitioning.                                          *)
(***************************************************************************)
\* The places (chunk, position) of the chunks cs.
Places(cs) == { p \in (1..Len(cs)) \X (1..MaxUrls + 2) : p[2] <= Len(cs[p[1]]) }

\* The URLs of the chunks cs.
ChunkUrls(cs) == { cs[p[1]][p[2]] : p \in Places(cs) }

\* C12: a non-empty URL set of size n is split into exactly min(3, n) chunks by
\* round-robin (the i-th URL, from 0, goes to chunk i mod min(3, n)), every URL
\* is at exactly one place of exactly one chunk, and no chunk is empty.
C12_RoundRobinPartition ==
    (ppc = "done" /\ purls # <<>>)
    => LET n == Len(purls)
           num == IF n < 3 THEN n ELSE 3
       IN /\ Len(pchunks) = num
          /\ \A j \in 1..num : pchunks[j] # <<>>
          /\ \A i \in 1..n :
                /\ Cardinality({ p \in Places(pchunks) : pchunks[p[1]][p[2]] = purls[i] }) = 1
                /\ \E k \in 1..Len(pchunks[((i - 1) % num) + 1]) :
                      pchunks[((i - 1) % num) + 1][k] = purls[i]
          /\ ChunkUrls(pchunks) = { purls[i] : i \in 1..n }

\* C12's case: five URLs in three chunks, two of them with two URLs.
C12_Witness ==
    /\ ppc = "done"
    /\ Len(purls) = 5
    /\ Len(pchunks) = 3
    /\ Len(pchunks[1]) = 2 /\ Len(pchunks[2]) = 2 /\ Len(pchunks[3]) = 1

(***************************************************************************)
(* Claims about the cycle.                                                 *)
(***************************************************************************)
\* Worker w takes a step.
StepOf(w) == kpc'[w] # kpc[w] \/ kidx'[w] # kidx[w] \/ kfails'[w] # kfails[w]

\* Some worker makes a get_page_content attempt.
FetchStep ==
    /\ lastFetch' # NoFetch
    /\ lastFetch' # lastFetch \/ \E w \in Scrapers : kpc[w] = "fetch" /\ StepOf(w)

\* check_for_ads starts a cycle.
CycleStarts == cpc = "start" /\ cpc' # "start"

\* The attempt recorded in lastFetch reached the search page and its ads.
GoodFetch(f) ==
    /\ f # NoFetch
    /\ f.env.goto /\ f.env.loaded /\ f.env.current_url = Landed

\* The titles of the page `ads` that satisfy the level-1 keywords of url in cfg
\* (the configurations of the cycles have no other level).
Wanted(cfg, url, ads) ==
    { i \in 1..Len(ads) :
        \/ url \notin DOMAIN cfg.url_filters
        \/ Level1 \notin DOMAIN cfg.url_filters[url]
        \/ LevelSatisfied(cfg.url_filters[url][Level1], ads[i].title) }

\* C11: a cycle that starts takes the shared configuration as it is then (the
\* latest completed update): its chunks hold exactly that configuration's URLs,
\* the configuration stays the cycle's until the next start, and every page a
\* worker fetches is filtered with it.
C11_CycleRereadsConfig ==
    [][/\ CycleStarts =>
            /\ cycleCfg' = config
            /\ ChunkUrls(chunks') = DOMAIN config.url_filters
       /\ ~CycleStarts => cycleCfg' = cycleCfg
       /\ \A w \in Scrapers :
            (kpc[w] = "fetch" /\ StepOf(w) /\ GoodFetch(lastFetch') /\ kfails'[w] = 0)
            => lastFetch'.calls =
                 Cardinality(Wanted(cycleCfg, chunks[w][kidx[w]],
                                    extract_ads(lastFetch'.env.source, cycleCfg.currency)))
      ]_vars

\* C11's case: the configuration was updated after start-up, the running cycle
\* has the updated one, and a page of two listings was filtered down to one by
\* it, while the store holds the other listing from a cycle before the update.
C11_Witness ==
    /\ cpc = "join"
    /\ config # loaded
    /\ cycleCfg = config
    /\ cycleCfg = FilteredConfig
    /\ GoodFetch(lastFetch) /\ lastFetch.env.source = PageTwo /\ lastFetch.calls = 1
    /\ Exists(table, CycleAd2.ad_id)

\* The URLs of one chunk.
UrlsOf(chunk) == { chunk[k] : k \in 1..Len(chunk) }

\* The tasks the cycle spawned have all ended.
AllDone == \A w \in 1..Len(chunks) : kpc[w] = "done"

\* C13: a cycle that spawns workers calls prune exactly once, when every worker
\* has ended, so that no worker steps and the store does not change after it,
\* and the call is open whatever the workers did.
C13_PruneOnceAfterWorkers ==
    /\ [](/\ cpc = "join" => prunes = 0
          /\ (cpc = "sleep" /\ chunks # <<>>) => (prunes = 1 /\ AllDone)
          /\ (cpc = "join" /\ AllDone) => ENABLED (JoinPrune \/ JoinPruneFail))
    /\ [][/\ prunes' = prunes + 1 => (AllDone /\ cpc = "join" /\ cpc' = "sleep")
          /\ cpc # "join" => table' = table
          /\ (cpc # "join" /\ cpc' # "join") => \A w \in Scrapers : kpc'[w] \in {kpc[w], "none"}
         ]_vars

\* C13's case: every worker of a cycle of three failed to initialise, and the
\* cycle has pruned.
C13_Witness ==
    /\ cpc = "sleep"
    /\ Len(chunks) = 3
    /\ \A w \in Scrapers : kpc[w] = "done" /\ ~init_success[w]
    /\ prunes = 1
    /\ pruned = 1

\* The row's last_checked is older than the retention horizon at instant `clock`.
Stale(row, clock) ==
    parse_from_rfc3339(row.last_checked, clock) < clock - Days(14)

\* C14: at the end of every completed cycle (whose prune, if any, did not fail),
\* whatever its URL set, the store holds no listing older than the horizon.
C14_NoStaleAfterCycle ==
    (cpc = "sleep" /\ cycleCfg # NoConfig /\ pruned # -1)
    => \A i \in 1..Len(table) : ~Stale(table[i], now)

\* C16: a worker whose initialisation is exhausted ends without a session,
\* having fetched no URL; no other worker fetches the URLs of its chunk; the
\* store changes in a cycle only by the step of an initialised worker; the
\* other workers fetch their own chunks, and the prune is open once all ended.
C16_InitExhaustedSkipsChunk ==
    /\ [](/\ \A w \in Scrapers :
               (kpc[w] = "done" /\ ~init_success[w])
               => /\ tried[w] = {}
                  /\ ~driver[w]
                  /\ \A v \in Scrapers \ {w} : tried[v] \cap UrlsOf(chunks[w]) = {}
          /\ \A v \in Scrapers : kpc[v] \in {"fetch", "done"} =>
                tried[v] \subseteq UrlsOf(chunks[v])
          /\ (cpc = "join" /\ AllDone) => ENABLED JoinPrune)
    /\ [][/\ \A w \in Scrapers :
               (kpc[w] = "init" /\ kpc'[w] # "init")
               => \/ kpc'[w] = "fetch" /\ init_success'[w] /\ driver'[w]
                  \/ kpc'[w] = "done" /\ ~init_success'[w]
          /\ (cpc = "join" /\ cpc' = "join" /\ table' # table)
             => \E w \in Scrapers : init_success[w] /\ kpc[w] = "fetch" /\ StepOf(w)
         ]_vars

\* C16's case: the first worker failed to initialise, the second fetched its
\* chunk and stored a listing, and the cycle has pruned.
C16_Witness ==
    /\ cpc = "sleep" /\ prunes = 1 /\ pruned # -1
    /\ Len(chunks) = 3
    /\ kpc[1] = "done" /\ ~init_success[1] /\ tried[1] = {}
    /\ kpc[2] = "done" /\ init_success[2] /\ tried[2] = UrlsOf(chunks[2])
    /\ Exists(table, CycleAd1.ad_id)

\* C17: a failed fetch leads to no upsert; a worker leaves the fetch loop only
\* at the last URL of its chunk, so an initialised worker that has ended has
\* attempted every URL of its chunk.
C17_FetchExhaustedContinues ==
    /\ [](\A w \in Scrapers :
             (kpc[w] = "done" /\ init_success[w]) => tried[w] = UrlsOf(chunks[w]))
    /\ [][/\ (FetchStep /\ ~GoodFetch(lastFetch'))
             => (table' = table /\ ~lastFetch'.ok /\ lastFetch'.calls = 0)
          /\ \A w \in Scrapers :
               (kpc[w] = "fetch" /\ StepOf(w))
               => /\ chunks[w][kidx[w]] \in tried'[w]
                  /\ kidx'[w] # kidx[w] => (kidx'[w] = kidx[w] + 1 /\ kpc'[w] = "fetch")
                  /\ kpc'[w] = "done" => kidx[w] = Len(chunks[w])
         ]_vars

\* C17's case: the only worker that has fetched so far is the first; its last
\* attempt failed, and it is at its second URL with a fresh backoff: the fetch
\* of its first URL failed for good.
C17_Witness ==
    /\ Len(chunks) = 3
    /\ kpc[1] = "fetch" /\ kidx[1] = 2 /\ kfails[1] = 0
    /\ kpc[2] = "init" /\ kpc[3] = "init"
    /\ lastFetch # NoFetch /\ ~lastFetch.ok /\ ~GoodFetch(lastFetch)
    /\ tried[1] = {chunks[1][1]}

\* C19: when the store fails on a candidate of a page, every candidate of the
\* page that passes the filter is still handed to the store and those the store
\* takes are stored; the worker goes on to its next URL or ends at its last,
\* and the prune is open once all workers have ended.
C19_StorageErrorDoesNotAbort ==
    /\ []((cpc = "join" /\ AllDone) => ENABLED (JoinPrune \/ JoinPruneFail))
    /\ [][\A w \in Scrapers :
             (kpc[w] = "fetch" /\ StepOf(w) /\ GoodFetch(lastFetch') /\ lastFetch'.errs # {})
             => LET ads == extract_ads(lastFetch'.env.source, cycleCfg.currency)
                    wanted == Wanted(cycleCfg, chunks[w][kidx[w]], ads)
                IN /\ lastFetch'.calls = Cardinality(wanted)
                   /\ \A i \in wanted \ lastFetch'.errs : Exists(table', ads[i].ad_id)
                   /\ \/ kpc'[w] = "fetch" /\ kidx'[w] = kidx[w] + 1
                      \/ kpc'[w] = "done" /\ kidx[w] = Len(chunks[w])
                   /\ cpc' = "join"
         ]_vars

\* C19's case: the store failed on the first listing of a page, the second was
\* stored, the worker went on and the cycle has pruned.
C19_Witness ==
    /\ cpc = "sleep" /\ prunes = 1
    /\ lastFetch # NoFetch /\ lastFetch.errs = {1} /\ lastFetch.calls = 2
    /\ Exists(table, CycleAd2.ad_id)
    /\ ~Exists(table, CycleAd1.ad_id)

(***************************************************************************)
(* Claims checked with updates of the configuration (SpecReload).          *)
(***************************************************************************)
\* C15: a cycle that starts with an empty URL set does nothing: no task is in
\* its init or fetch loop afterwards, no session is held, the store is as it
\* was, and check_for_ads is back at the sleep.
C15_EmptyCycleNoop ==
    [][(CycleStarts /\ DOMAIN config.url_filters = {})
       => /\ cpc' = "sleep"
          /\ table' = table
          /\ \A w \in Scrapers : kpc'[w] \notin {"init", "fetch"} /\ ~driver'[w]
          /\ \A w \in Scrapers : tried'[w] \subseteq tried[w]
      ]_vars

\* C15's case: an empty cycle has run after the configuration lost its URLs;
\* the listings stored before are as they were.
C15_Witness ==
    /\ cpc = "sleep"
    /\ loaded # FallbackConfig
    /\ cycleCfg = FallbackConfig
    /\ \A w \in Scrapers : kpc[w] = "none"
    /\ Exists(table, CycleAd1.ad_id)

\* The browser was sent to a login or checkpoint page.
SoftBlocked(f) ==
    /\ f # NoFetch
    /\ f.env.goto
    /\ f.env.current_url \in {LoginLanding, CheckpointLanding}

\* C18: an attempt that lands on a login or checkpoint page yields no content
\* and no upsert, and is a failure of the URL's retry loop: the worker either
\* retries the same URL or, the backoff being exhausted, moves on.
C18_SoftBlockIsFailure ==
    [][(FetchStep /\ SoftBlocked(lastFetch'))
       => /\ ~lastFetch'.ok
          /\ lastFetch'.calls = 0
          /\ table' = table
          /\ \A w \in Scrapers : StepOf(w) =>
                \/ kpc'[w] = "fetch" /\ kidx'[w] = kidx[w] /\ kfails'[w] = 1
                \/ kpc'[w] = "fetch" /\ kidx'[w] = kidx[w] + 1 /\ kfails'[w] = 0
                \/ kpc'[w] = "done" /\ kidx[w] = Len(chunks[w])
      ]_vars

\* C18's case: the attempt landed on the login page and the worker is about to
\* retry the same URL.
C18_Witness ==
    /\ SoftBlocked(lastFetch)
    /\ lastFetch.env.current_url = LoginLanding
    /\ kpc[1] = "fetch" /\ kfails[1] = 1
    /\ kpc[2] = "none"
    /\ ~lastFetch.ok

(***************************************************************************)
(* Claims about the retry loop.                                            *)
(***************************************************************************)
\* C20: a retry loop ends: it comes to rest at success or exhaustion; against
\* an operation that never succeeds it comes to rest at exhaustion; no attempt
\* starts once 60 seconds have elapsed; and after exhaustion the loop makes no
\* further step.
C20_RetryLoopTerminates ==
    /\ <>[](bpc \in {"ok", "exhausted"})
    /\ [](bpc # "ok") => <>[](bpc = "exhausted")
    /\ [](bpc = "attempt" => elapsed < 60000)
    /\ [][bpc = "exhausted" => UNCHANGED <<bpc, elapsed, current_interval, delay>>]_vars

\* C20's case: exhaustion was reported after the operation had failed several
\* times and the ceiling was reached.
C20_Witness ==
    /\ bpc = "exhausted"
    /\ elapsed >= 60000
    /\ current_interval > 3 * 500

(***************************************************************************)
(* Claims about the backoff of each fetch.                                 *)
(***************************************************************************)
\* C21: the retry loop of a page fetch starts with no time elapsed and the
\* initial interval, so that its first next_backoff offers the delays a new
\* backoff offers, whatever state the task's backoff and the instance of the
\* loop before were left in; taking the clone leaves the task's backoff as it is.
C21_FreshBackoffPerFetch ==
    [][bop' # bop
       => /\ bpc' = "check"
          /\ elapsed' = 0
          /\ current_interval' = initial_interval
          /\ next_backoff(elapsed', current_interval') = RandomizedIntervals(initial_interval)
          /\ NoDelay \notin next_backoff(elapsed', current_interval')
          /\ backoff' = backoff
      ]_vars

\* C21's case: the fetch loop of the URL before ran out, the task's backoff is
\* older than the ceiling, and the first attempt of the next URL is under way
\* with a delay drawn around the initial interval.
C21_Witness ==
    /\ bop = 2
    /\ bpc = "attempt"
    /\ backoff.elapsed > max_elapsed_time
    /\ elapsed = 0
    /\ delay \in RandomizedIntervals(initial_interval)

(***************************************************************************)
(* Claims about the sessions and the background loop.                      *)
(***************************************************************************)
\* C22: a worker calls driver.quit() at most once, only on the step that ends
\* it, holding a driver; a worker that initialised and has ended has called it
\* exactly once and holds no driver, whatever its fetches and upserts did;
\* whether or not the release left the session open, the worker has ended and
\* the prune is open once all workers have.
C22_SessionReleasedOnce ==
    /\ [](/\ \A w \in Scrapers :
               /\ quits[w] <= 1
               /\ (kpc[w] = "done" /\ init_success[w]) => (quits[w] = 1 /\ ~driver[w])
               /\ kpc[w] \in {"init", "fetch"} => quits[w] = 0
               /\ ~init_success[w] => (quits[w] = 0 /\ ~session[w])
               /\ session[w] => (driver[w] \/ quits[w] = 1)
          /\ (cpc = "join" /\ AllDone) => ENABLED (JoinPrune \/ JoinPruneFail))
    /\ [][\A w \in Scrapers :
             /\ quits'[w] # quits[w] /\ ~CycleStarts
                => /\ quits'[w] = quits[w] + 1
                   /\ driver[w] /\ ~driver'[w]
                   /\ kpc[w] = "fetch" /\ kpc'[w] = "done"
                   /\ cpc' = "join"
             /\ (kpc[w] = "fetch" /\ kpc'[w] = "done") => quits'[w] = quits[w] + 1
         ]_vars

\* C22's case: in a cycle of three workers the first one's every fetch failed
\* and its release failed, leaving the session open; the second released its
\* session; the third never initialised; the cycle has pruned.
C22_Witness ==
    /\ cpc = "sleep" /\ prunes = 1
    /\ Len(chunks) = 3
    /\ kpc[1] = "done" /\ init_success[1] /\ quits[1] = 1 /\ session[1] /\ ~driver[1]
    /\ kpc[2] = "done" /\ init_success[2] /\ quits[2] = 1 /\ ~session[2]
    /\ kpc[3] = "done" /\ ~init_success[3] /\ quits[3] = 0
    /\ table = <<>>

\* An iteration of the background loop begins after an earlier cycle.
NextIteration == cpc = "sleep" /\ cpc' = "start" /\ cycleCfg # NoConfig

\* C23: one cycle at a time: workers run only while check_for_ads awaits them,
\* they are started only by the step that starts a cycle, and an iteration
\* after a cycle begins (reading the configuration) only from the sleep, when
\* every task of that cycle has ended and its prune has returned.
C23_CyclesSequential ==
    /\ [](cpc # "join" => \A w \in Scrapers : kpc[w] \in {"none", "done"})
    /\ [][/\ (\E w \in Scrapers : kpc'[w] = "init" /\ kpc[w] # "init") => CycleStarts
          /\ (cycleCfg' # cycleCfg \/ interval' # interval) => cpc \in {"sleep", "start"}
          /\ NextIteration => (AllJoined /\ prunes = 1)
         ]_vars

\* C24: the background loop goes on for ever: every cycle that awaits its
\* tasks comes to its sleep, every sleep is followed by the start of an
\* iteration and every start by a cycle, whatever the workers and the prune
\* did; no state of the loop is without a next step.
C24_LoopSelfHealing ==
    /\ (cpc = "join") ~> (cpc = "sleep")
    /\ (cpc = "sleep") ~> (cpc = "start")
    /\ (cpc = "start") ~> (cpc # "start")
    /\ [](cpc \in {"sleep", "start", "join"} /\ ENABLED NextLoop)

\* C24's case: an iteration has begun after a cycle of two workers in which
\* one never initialised, the other ended abnormally with its session open,
\* and the prune failed.
C24_Witness ==
    /\ cpc = "start"
    /\ Len(chunks) = 2
    /\ kpc[1] = "done" /\ ~init_success[1]
    /\ kpc[2] = "done" /\ init_success[2] /\ quits[2] = 0 /\ session[2]
    /\ prunes = 1 /\ pruned = -1

(***************************************************************************)
(* Claims about the feed.                                                  *)
(***************************************************************************)
\* A GET /rss is answered.
FeedCall == feed' # feed \/ recent' # recent

\* C25: a feed request changes neither the store nor the shared configuration
\* nor its file, in whatever state the workers' upserts and the prune are; its
\* document has one item per listing get_recent_ads(7) returned, in the same
\* order, each with the listing's id, link, title and price.
C25_FeedOnlyReads ==
    [][FeedCall =>
        /\ table' = table
        /\ config' = config /\ disk' = disk
        /\ UNCHANGED <<wpc, entry, exists, res, pruned>>
        /\ feed'.status = 200 =>
             LET items == feed'.body.items
             IN /\ recent' \in get_recent_ads(table, RecentDays, now)
                /\ Len(items) = Len(recent')
                /\ \A k \in 1..Len(items) :
                      /\ items[k].guid = recent'[k].ad_id
                      /\ items[k].link = recent'[k].url
                      /\ items[k].title = <<recent'[k].title, " - ", recent'[k].price>>
                      /\ items[k].pub_date = DayOf(recent'[k].last_checked)
      ]_vars

\* C25's case: the feed was served with two listings, the later sighting first.
C25_Witness ==
    /\ feed # NoFeed /\ feed.status = 200
    /\ Len(feed.body.items) = 2
    /\ feed.body.items[1].guid # feed.body.items[2].guid
    /\ feed.body.items[1].guid = recent[1].ad_id
    /\ recent[1].last_checked > recent[2].last_checked
    /\ Len(table) = 2

(***************************************************************************)
(* Claims about the shared configuration and the cycle.                    *)
(***************************************************************************)
\* C26: between any two steps of the program (so while a worker fetches, backs
\* off, sleeps or calls the store, and while the background loop sleeps) no
\* task holds a read guard of the shared configuration, and a valid update can
\* take the write lock and be applied.
C26_NoGuardAcrossOperations ==
    /\ guards = {}
    /\ nposts < MaxPosts => ENABLED UpdateConfigOk

\* C26's case: an update was applied while a worker of the running cycle was
\* sleeping between two attempts of a fetch.
C26_Witness ==
    /\ cpc = "join"
    /\ cycleCfg # NoConfig /\ config # cycleCfg
    /\ \E w \in Scrapers : kpc[w] = "fetch" /\ kfails[w] = 1

\* C29: the refresh interval a cycle is followed by belongs to the version of
\* the configuration the cycle works with: while check_for_ads runs on its
\* clone, and in the sleep after it, `interval` is that clone's
\* refresh_interval_minutes.
C29_OneVersionPerCycle ==
    (cpc \in {"join", "sleep"} /\ cycleCfg # NoConfig)
    => interval = cycleCfg.refresh_interval_minutes

\* The row of the listing with this ad_id.
RowOf(t, id) == t[CHOOSE i \in 1..Len(t) : t[i].ad_id = id]

\* C27: when a worker has fetched the page of its URL, the candidates that do
\* not satisfy the URL's filter in the cycle's configuration leave their rows
\* as they were (absent, or as stored before), every candidate that satisfies
\* it is handed to upsert, and those the store takes are stored with their
\* title and price and the time of the sighting.
C27_UpsertIffFilterPasses ==
    [][\A w \in Scrapers :
          (kpc[w] = "fetch" /\ StepOf(w) /\ GoodFetch(lastFetch'))
          => LET ads == extract_ads(lastFetch'.env.source, cycleCfg.currency)
                 wanted == Wanted(cycleCfg, chunks[w][kidx[w]], ads)
             IN /\ lastFetch'.calls = Cardinality(wanted)
                /\ \A i \in (1..Len(ads)) \ wanted :
                      /\ Exists(table', ads[i].ad_id) = Exists(table, ads[i].ad_id)
                      /\ Exists(table, ads[i].ad_id)
                         => RowOf(table', ads[i].ad_id) = RowOf(table, ads[i].ad_id)
                /\ \A i \in wanted \ lastFetch'.errs :
                      /\ Exists(table', ads[i].ad_id)
                      /\ RowOf(table', ads[i].ad_id).title = ads[i].title
                      /\ RowOf(table', ads[i].ad_id).price = ads[i].price
                      /\ LastCheckedOf(RowOf(table', ads[i].ad_id)) = now
                /\ Len(table') = Len(table)
                     + Cardinality({ i \in wanted \ lastFetch'.errs : ~Exists(table, ads[i].ad_id) })
      ]_vars

\* C27's case: a page of two listings was fetched for the filtered URL: one
\* listing was handed to upsert and is stored, the other is not in the store.
C27_Witness ==
    /\ cycleCfg = FilteredConfig /\ config = cycleCfg
    /\ GoodFetch(lastFetch) /\ lastFetch.env.source = PageTwo
    /\ lastFetch.calls = 1 /\ lastFetch.errs = {}
    /\ Exists(table, CycleAd1.ad_id)
    /\ ~Exists(table, CycleAd2.ad_id)

\* C28: no step of the store moves the last_checked of a stored listing
\* backwards: a listing stored before and after a step has a last_checked at
\* least as late after it, whichever worker's write the step is.
C28_LastCheckedMonotone ==
    [][\A i \in 1..Len(table) :
          Exists(table', table[i].ad_id)
          => LastCheckedOf(RowOf(table', table[i].ad_id)) >= LastCheckedOf(table[i])
      ]_vars

\* C30: a configuration update applied while a cycle is running leaves the
\* chunks and the configuration of every worker of the cycle as they were, all
\* workers hold the same configuration, and every page a worker fetches is
\* extracted with the currency and filtered with the filters of the
\* configuration check_for_ads cloned when the cycle started.
C30_WorkersUseCycleVersion ==
    [][/\ (config' # config /\ cpc = "join")
          => /\ chunks' = chunks
             /\ \A w \in Scrapers : config_clone(w)' = config_clone(w)
       /\ \A v, w \in Scrapers : config_clone(v)' = config_clone(w)'
       /\ \A w \in Scrapers :
            (kpc[w] = "fetch" /\ StepOf(w) /\ GoodFetch(lastFetch'))
            => LET ads == extract_ads(lastFetch'.env.source, cycleCfg.currency)
               IN /\ config_clone(w) = cycleCfg
                  /\ lastFetch'.calls = Cardinality(Passing(cycleCfg, CurrentUrl(w), ads))
      ]_vars

\* C30's case: the configuration was replaced during the cycle by one with
\* another currency, under which the page fetched yields no candidate, and the
\* cycle's worker has extracted the two listings of the page and kept the one
\* that passes the filter of the configuration the cycle started with.
C30_Witness ==
    /\ cpc = "join"
    /\ cycleCfg = FilteredConfig /\ config = SlowConfig
    /\ extract_ads(PageTwo, config.currency) = <<>>
    /\ GoodFetch(lastFetch) /\ lastFetch.env.source = PageTwo /\ lastFetch.calls = 1
    /\ Exists(table, CycleAd1.ad_id) /\ ~Exists(table, CycleAd2.ad_id)

\* Every request has been answered, the last answer of each request that got
\* one is 200 OK, and at least one update was applied.
UpdatesQuiescent ==
    /\ \A r \in Requests : rpc[r] = "idle" /\ rstatus[r] \in {0, 200}
    /\ \E r \in Requests : rstatus[r] = 200

\* C31: once the update requests have all completed with 200 OK, the
\* configuration file holds the shared in-memory configuration, whatever the
\* interleaving of the requests was.
C31_DiskEqualsMemory ==
    UpdatesQuiescent => disk = Serialized(config)

\* The workers whose session is open at the WebDriver server.
OpenSessions == { w \in Scrapers : session[w] }

\* C32: at most MaxScrapers sessions are open, each opened by a worker of the
\* cycle's chunks, and none is open while the background loop is between two
\* cycles.
C32_SessionsBounded ==
    /\ Cardinality(OpenSessions) <= MaxScrapers
    /\ OpenSessions \subseteq 1..Len(chunks)
    /\ cpc = "sleep" => OpenSessions = {}

====
